---- MODULE Spec2Model ----
(***************************************************************************)
(* Model of the geodata post-processing code of MassBalanceMachine:        *)
(*   src/massbalancemachine/geodata/GeoData.py        (class GeoData)      *)
(*   src/regions/Switzerland/scripts/geodata.py       (script helpers)     *)
(*                                                                         *)
(* Representation.                                                         *)
(*  - A float cell is a sequence: <<>> is NaN (missing), <<v>> is the      *)
(*    number v.  Numbers are fixed-point integers (pred_masked and tol in  *)
(*    tenths), so that comparisons are the floats' comparisons.  A float   *)
(*    that the Gaussian filter computed is no fixed-point number: its cell *)
(*    is <<lo, hi>>, the thousandths lo <= hi between which the float      *)
(*    lies.                                                                *)
(*  - A GeoDataFrame is a sequence of rows with a default RangeIndex; a    *)
(*    row is a record whose fields are the frame's columns; geometry is    *)
(*    the pair <<x, y>> of the row's Point.                                *)
(*  - The program is a library of calls.  A specification draws the        *)
(*    arguments of a call in Init (pc = "ready") or starts from the        *)
(*    GeoData object as __init__ leaves it; its actions are the calls,     *)
(*    and `entry` records the objects as they were when the call began.    *)
(*    Objects that the code                                                *)
(*    mutates in place (self.gdf, self.ds_latlon, a gdf argument) are      *)
(*    the same variables after the call; `ret` is what the call returned   *)
(*    or raised.                                                           *)
(***************************************************************************)
EXTENDS Integers, Sequences, FiniteSets, TLC

VARIABLES
    pc,          \* "ready" before the call, "done" after it ("set", "points" and
                 \* the steps of save_arrays in between)
    gdf,         \* self.gdf / the first GeoDataFrame argument
    gdf_raster,  \* the second GeoDataFrame argument (gdf_raster, gdf_class_raster)
    ds_latlon,   \* self.ds_latlon / the ds argument: variable name -> 2-D grid
    args,        \* the scalar arguments of the call
    ret,         \* the call's outcome: what it returned or raised
    entry,       \* the argument objects as they were when the call started
    data,        \* self.data: the rows of the prediction DataFrame
    ds_xy,       \* self.ds_xy
    fs           \* the file system: the directories and the files that exist

vars == <<pc, gdf, gdf_raster, ds_latlon, args, ret, entry, data, ds_xy, fs>>

---------------------------------------------------------------------------
(* Floats with NaN *)

NaN == <<>>

Num(v) == <<v>>

isna(c) == c = NaN

\* a comparison with NaN is False, whichever the operator
Gt(c, n) == ~isna(c) /\ c[1] > n

Le(c, n) == ~isna(c) /\ c[1] <= n

Ge(c, n) == ~isna(c) /\ c[1] >= n

\* Series != scalar: NaN != n is True
Ne(c, n) == isna(c) \/ c[1] # n

Eq(c, n) == ~isna(c) /\ c[1] = n

\* class labels of the classification (1 = snow, 3 = ice, 5 = cloud)
SNOW == 1

ICE == 3

CLOUD == 5

\* all tables of 0..n rows drawn from Rows
TablesUpTo(Rows, n) == UNION {[1..k -> Rows] : k \in 0..n}

RECURSIVE RankedTablesOfLen(_, _, _)
\* the tables of k rows drawn from Rows that list their rows by ascending
\* rank[row]: one row order for every collection of rows
RankedTablesOfLen(Rows, rank, k) ==
    IF k = 0 THEN {<<>>}
    ELSE UNION {{Append(t, r) :
                    r \in {q \in Rows : k = 1 \/ rank[t[k - 1]] <= rank[q]}} :
                t \in RankedTablesOfLen(Rows, rank, k - 1)}

RankedTablesUpTo(Rows, rank, n) ==
    UNION {RankedTablesOfLen(Rows, rank, k) : k \in 0..n}

\* DataFrame.assign-like: the row with column col set to value v (added when absent)
SetCol(row, col, v) == (col :> v) @@ row

\* self.ds_latlon = None, and a Dataset holding the variables vs (name -> grid)
NoDataset == [is_none |-> TRUE, data_vars |-> <<>>]

Dataset(vs) == [is_none |-> FALSE, data_vars |-> vs]

NoRet == [kind |-> "none"]

\* a call that ends with an exception of the class error
Raise(error) == [kind |-> "raise", error |-> error]

Entry == [gdf |-> gdf, gdf_raster |-> gdf_raster, ds_latlon |-> ds_latlon,
          ds_xy |-> ds_xy]

\* no directory and no file
NoFiles == [dirs |-> {}, files |-> <<>>]

\* the objects that the calls of a specification do not touch
InitRest == data = <<>> /\ ds_xy = NoDataset /\ fs = NoFiles

---------------------------------------------------------------------------
(* GeoData.classify_snow_cover *)

MaxRows == 3

\* the points of self.gdf before classification: geometry and pred_masked
PredRows == [geometry : {<<0, 0>>},
             pred_masked : {NaN} \cup {Num(v) : v \in -2..2}]

\* mutant: the boundary value pred_masked = -tol falls through to NaN
SnowClassStrict(pred, tol) ==
    IF Gt(pred, -tol) THEN Num(SNOW)
    ELSE IF ~isna(pred) /\ pred[1] < -tol THEN Num(ICE) ELSE NaN

\* np.where(pred > -tol, 1, np.where(pred <= -tol, 3, np.nan)), one element
SnowClass(pred, tol) ==
    IF Gt(pred, -tol) THEN Num(SNOW)
    ELSE IF Le(pred, -tol) THEN Num(ICE) ELSE NaN

classify_snow_cover(tol) ==
    /\ pc = "ready"
    /\ gdf' = [i \in DOMAIN gdf |->
                  SetCol(gdf[i], "classes", SnowClass(gdf[i].pred_masked, tol))]
    /\ args' = [tol |-> tol]
    /\ ret' = [kind |-> "None"]
    /\ pc' = "done"
    /\ UNCHANGED <<gdf_raster, ds_latlon, entry, data, ds_xy, fs>>

InitClassify ==
    /\ pc = "ready"
    /\ gdf \in TablesUpTo(PredRows, MaxRows)
    /\ gdf_raster = <<>>
    /\ ds_latlon = NoDataset
    /\ args = [tol |-> 0]
    /\ ret = NoRet
    /\ InitRest
    /\ entry = Entry

NextClassify == \E tol \in {0, 1, 2} : classify_snow_cover(tol)

SpecClassify == InitClassify /\ [][NextClassify]_vars

\* C1: after classify_snow_cover(tol) every row has classes = 1 when its
\* pred_masked > -tol, classes = 3 when pred_masked <= -tol (pred_masked = -tol
\* included) and classes = NaN when pred_masked is NaN: the class is a function
\* of the row's own value and tol only; the other columns and the number of
\* rows are as before.
ClassifyRowwise ==
    pc = "done" =>
        /\ Len(gdf) = Len(entry.gdf)
        /\ \A i \in DOMAIN gdf :
            LET v == entry.gdf[i].pred_masked
                c == gdf[i].classes
            IN  /\ gdf[i].pred_masked = v
                /\ gdf[i].geometry = entry.gdf[i].geometry
                /\ (v = NaN => c = NaN)
                /\ (v # NaN /\ v[1] > -args.tol => c = Num(1))
                /\ (v # NaN /\ v[1] = -args.tol => c = Num(3))
                /\ (v # NaN /\ v[1] < -args.tol => c = Num(3))

\* a classified table holding a missing value, the boundary value -tol (ice)
\* and a value above it (snow), with tol > 0
ClassifyWitness ==
    /\ pc = "done"
    /\ args.tol > 0
    /\ \E i, j, k \in DOMAIN gdf :
        /\ gdf[i].pred_masked = NaN /\ gdf[i].classes = NaN
        /\ gdf[j].pred_masked = Num(-args.tol) /\ gdf[j].classes = Num(3)
        /\ gdf[k].pred_masked = Num(1 - args.tol) /\ gdf[k].classes = Num(1)

---------------------------------------------------------------------------
(* Gaussian smoothing: GeoData.apply_gaussian_filter and GaussianFilter *)

\* the grid is NLat x NLon (dims latitude, longitude)
NLat == 2

NLon == 2

Sigmas == {0, 1}

\* scipy.ndimage._gaussian_kernel1d(sigma = 1, order = 0, radius = 4):
\* exp(-x^2 / 2) / sum at |x| = 0..4 (radius = int(4 * 1 + 0.5)).  The weights
\* are floats; each is given by the two hundred-thousandths that enclose it
\* (0.3989434..., 0.2419714..., 0.0539911..., 0.0044318..., 0.0001338...)
Kernel == <<<<39894, 39895>>, <<24197, 24198>>, <<5399, 5400>>, <<443, 444>>,
            <<13, 14>>>>

KernelRadius == Len(Kernel) - 1

Abs(k) == IF k < 0 THEN -k ELSE k

\* mode = 'reflect' (d c b a | a b c d | d c b a): the index into 1..n that
\* position i, possibly outside 1..n, reads
Reflect(i, n) ==
    LET j == (i - 1) % (2 * n)
    IN  IF j < n THEN j + 1 ELSE 2 * n - j

RECURSIVE SumOver(_, _)
\* the sums of correlate1d at one position over the offsets k..radius: v[k]
\* is the value read at offset k, an interval <<lo, hi>> of millionths that
\* holds the float.  A bound of the product weight * value takes the weight's
\* lower or upper bound by the sign of the value, and is taken on the
\* thousands and on the rest of the value, so that no sum leaves the 32-bit
\* range: <<lower sum of the thousands, of the rest, upper sum of the
\* thousands, of the rest>>
SumOver(v, k) ==
    IF k > KernelRadius THEN <<0, 0, 0, 0>>
    ELSE LET Term(c, w, rest) ==
                 LET wlo == IF c[1] >= 0 THEN w[1] ELSE w[2]
                     whi == IF c[2] >= 0 THEN w[2] ELSE w[1]
                 IN  <<rest[1] + wlo * (c[1] \div 1000),
                       rest[2] + wlo * (c[1] % 1000),
                       rest[3] + whi * (c[2] \div 1000),
                       rest[4] + whi * (c[2] % 1000)>>
         IN  Term(v[k], Kernel[Abs(k) + 1], SumOver(v, k + 1))

\* correlate1d at one position: the weighted sum of the values v[k], k in
\* -radius..radius, as the interval of millionths that holds the float sum:
\* the lower end is rounded down, the upper end up
Correlate(v) ==
    LET \* floor((1000 * a + b) / 100000)
        Scaled(a, b) == (a \div 100) + ((1000 * (a % 100) + b) \div 100000)
        Bounds(s) == <<Scaled(s[1], s[2]), -Scaled(-s[3], -s[4])>>
    IN  Bounds(SumOver(v, -KernelRadius))

RECURSIVE ndarray(_, _, _)
\* the output array a pass writes: the values f[i], ..., f[n], stored
ndarray(f, i, n) ==
    IF i > n THEN <<>> ELSE <<f[i]>> \o ndarray(f, i + 1, n)

\* gaussian_filter1d / correlate1d along the latitude axis (axis 0), the
\* first pass: g is a grid of intervals of thousandths, the result one of
\* intervals of millionths
FilterLat(g) ==
    ndarray([i \in 1..NLat |-> ndarray([j \in 1..NLon |->
        Correlate([k \in -KernelRadius..KernelRadius |->
                      <<1000 * g[Reflect(i + k, NLat)][j][1],
                        1000 * g[Reflect(i + k, NLat)][j][2]>>])], 1, NLon)],
            1, NLat)

\* gaussian_filter1d / correlate1d along the longitude axis (axis 1), the
\* second pass, on the floats of the first: g is a grid of intervals of
\* millionths, the result one of intervals of thousandths, the lower end
\* rounded down and the upper end up
FilterLon(g) ==
    LET Outward(c) == <<c[1] \div 1000, -((-c[2]) \div 1000)>>
    IN  ndarray([i \in 1..NLat |-> ndarray([j \in 1..NLon |->
            Outward(Correlate([k \in -KernelRadius..KernelRadius |->
                                  g[i][Reflect(j + k, NLon)]]))], 1, NLon)],
                1, NLat)

\* scipy.ndimage.gaussian_filter(filled, sigma): one 1-D pass per axis when
\* sigma > 1e-15 (axis 0 first), the input itself otherwise.  g and the
\* result are grids of intervals of thousandths
gaussian_filter(g, sigma) ==
    IF sigma = 0 THEN g ELSE FilterLon(FilterLat(g))

\* mask = ~np.isnan(data_array)
NotNanMask(field) == [i \in 1..NLat |-> [j \in 1..NLon |-> ~isna(field[i][j])]]

\* data_array.fillna(0), every cell as the interval that holds its float
FillNa0(field) ==
    [i \in 1..NLat |-> [j \in 1..NLon |->
        LET c == field[i][j]
        IN  IF isna(c) THEN <<0, 0>> ELSE <<c[1], c[Len(c)]>>]]

\* mutant: the smoothed numbers are kept everywhere, the mask is not applied
WhereAll(nums, mask) ==
    [i \in 1..NLat |-> [j \in 1..NLon |->
        LET Cell(c) == IF c[1] = c[2] THEN Num(c[1]) ELSE c
        IN  Cell(nums[i][j])]]

\* xr.DataArray(smoothed_data, ...).where(mask): NaN where the mask is False,
\* else the cell: Num(v) when the float is known, the interval otherwise
Where(nums, mask) ==
    [i \in 1..NLat |-> [j \in 1..NLon |->
        LET Cell(c) == IF c[1] = c[2] THEN Num(c[1]) ELSE c
        IN  IF mask[i][j] THEN Cell(nums[i][j]) ELSE NaN]]

\* steps 1-4, common to both functions: the smoothed DataArray of a field
Smoothed(field, sigma) ==
    Where(gaussian_filter(FillNa0(field), sigma), NotNanMask(field))

\* ds[variable_name] = smoothed_data
SetVar(vs, name, field) == [n \in DOMAIN vs |-> IF n = name THEN field ELSE vs[n]]

ValueError == [kind |-> "raise", error |-> "ValueError"]

\* mutant: the two checks are missing, the lookups themselves fail
apply_gaussian_filter_unchecked(variable_name, sigma) ==
    /\ pc \in {"ready", "set"}
    /\ args' = [op |-> "apply_gaussian_filter", variable_name |-> variable_name,
                sigma |-> sigma]
    /\ pc' = "done"
    /\ IF ds_latlon.is_none
         THEN ret' = [kind |-> "raise", error |-> "TypeError"] /\ UNCHANGED ds_latlon
       ELSE IF variable_name \notin DOMAIN ds_latlon.data_vars
         THEN ret' = [kind |-> "raise", error |-> "KeyError"] /\ UNCHANGED ds_latlon
       ELSE /\ ds_latlon' = Dataset(SetVar(ds_latlon.data_vars, variable_name,
                        Smoothed(ds_latlon.data_vars[variable_name], sigma)))
            /\ ret' = [kind |-> "self"]
    /\ entry' = Entry
    /\ UNCHANGED <<gdf, gdf_raster, data, ds_xy, fs>>

\* GeoData.apply_gaussian_filter: replaces the variable in self.ds_latlon
apply_gaussian_filter(variable_name, sigma) ==
    /\ pc \in {"ready", "set"}
    /\ args' = [op |-> "apply_gaussian_filter", variable_name |-> variable_name,
                sigma |-> sigma]
    /\ pc' = "done"
    /\ IF ds_latlon.is_none
         THEN ret' = ValueError /\ UNCHANGED ds_latlon
       ELSE IF variable_name \notin DOMAIN ds_latlon.data_vars
         THEN ret' = ValueError /\ UNCHANGED ds_latlon
       ELSE /\ ds_latlon' = Dataset(SetVar(ds_latlon.data_vars, variable_name,
                        Smoothed(ds_latlon.data_vars[variable_name], sigma)))
            /\ ret' = [kind |-> "self"]
    /\ entry' = Entry
    /\ UNCHANGED <<gdf, gdf_raster, data, ds_xy, fs>>

\* mutant: smoothed_dataset = ds, the variable is replaced in the dataset
\* that was passed
GaussianFilterNoCopy(variable_name, sigma) ==
    /\ pc \in {"ready", "set"}
    /\ ~ds_latlon.is_none
    /\ args' = [op |-> "GaussianFilter", variable_name |-> variable_name,
                sigma |-> sigma]
    /\ pc' = "done"
    /\ IF variable_name \notin DOMAIN ds_latlon.data_vars
         THEN ret' = ValueError /\ UNCHANGED ds_latlon
       ELSE /\ ds_latlon' = Dataset(SetVar(ds_latlon.data_vars, variable_name,
                        Smoothed(ds_latlon.data_vars[variable_name], sigma)))
            /\ ret' = [kind |-> "Dataset", value |-> ds_latlon']
    /\ entry' = Entry
    /\ UNCHANGED <<gdf, gdf_raster, data, ds_xy, fs>>

\* GaussianFilter(ds, variable_name, sigma): returns a copy of ds with the
\* variable replaced; ds is the variable ds_latlon
GaussianFilter(variable_name, sigma) ==
    /\ pc \in {"ready", "set"}
    /\ ~ds_latlon.is_none
    /\ args' = [op |-> "GaussianFilter", variable_name |-> variable_name,
                sigma |-> sigma]
    /\ pc' = "done"
    /\ IF variable_name \notin DOMAIN ds_latlon.data_vars
         THEN ret' = ValueError
       ELSE ret' = [kind |-> "Dataset",
                    value |-> Dataset(SetVar(ds_latlon.data_vars, variable_name,
                        Smoothed(ds_latlon.data_vars[variable_name], sigma)))]
    /\ entry' = Entry
    /\ UNCHANGED <<ds_latlon, gdf, gdf_raster, data, ds_xy, fs>>

\* the elevation field that accompanies the prediction in the dataset
ElevGrid == [i \in 1..NLat |-> [j \in 1..NLon |->
                IF i = 1 /\ j = 1 THEN NaN ELSE Num(1000 * (i + j))]]

VarNames == {"pred_masked", "masked_elev", "pred"}

\* the variables and the coordinates of a dataset on the grid: names -> arrays
GridVars(names, g) ==
    [n \in names |->
        CASE n = "pred_masked" -> g
          [] n = "latitude" -> [i \in 1..NLat |-> 2 * (i - 1)]
          [] n = "longitude" -> [j \in 1..NLon |-> 2 * (j - 1)]
          [] OTHER -> ElevGrid]

\* datasets of the glacier grid: complete ones with a prediction of the
\* values vals (in thousandths, finite or NaN), one without the prediction
\* and one without the distance field
Datasets(vals) ==
    LET all == {"latitude", "longitude", "pred_masked", "masked_elev", "masked_dis"}
    IN  {Dataset(GridVars(all, g)) : g \in [1..NLat -> [1..NLon -> vals]]}
            \cup {Dataset(GridVars(all \ {"pred_masked"}, ElevGrid)),
                  Dataset(GridVars(all \ {"masked_dis"}, ElevGrid))}

\* the arguments of GaussianFilter(ds, variable_name, sigma): ds is a Dataset
InitFilter ==
    /\ pc = "ready"
    /\ ds_latlon \in Datasets({NaN, Num(-1000), Num(1000)})
    /\ gdf = <<>>
    /\ gdf_raster = <<>>
    /\ args = [op |-> "none", variable_name |-> "pred_masked", sigma |-> 0]
    /\ ret = NoRet
    /\ InitRest
    /\ entry = Entry

\* the dataset a successful smoothing call produced
SmoothResult == IF args.op = "GaussianFilter" THEN ret.value ELSE ds_latlon

SmoothOk == pc = "done" /\ ret.kind \in {"self", "Dataset"}

\* C2: after a successful apply_gaussian_filter / GaussianFilter, for sigma = 0
\* and sigma > 0 alike, a cell of the smoothed field is NaN if and only if the
\* same cell of the field was NaN before the call.
SmoothKeepsMask ==
    SmoothOk =>
        \A i \in 1..NLat, j \in 1..NLon :
            isna(SmoothResult.data_vars[args.variable_name][i][j])
                <=> isna(entry.ds_latlon.data_vars[args.variable_name][i][j])

\* a field with a missing and a present cell was smoothed with sigma > 0 and
\* the present cell's value changed: the old number lies outside the bounds of
\* the new one
SmoothWitness ==
    /\ SmoothOk
    /\ args.sigma > 0
    /\ \E i, k \in 1..NLat, j, l \in 1..NLon :
        LET old == entry.ds_latlon.data_vars[args.variable_name]
            new == SmoothResult.data_vars[args.variable_name]
        IN  /\ isna(old[i][j]) /\ isna(new[i][j])
            /\ ~isna(old[k][l]) /\ ~isna(new[k][l])
            /\ Len(old[k][l]) = 1 /\ Len(new[k][l]) = 2
            /\ (old[k][l][1] < new[k][l][1] \/ old[k][l][1] > new[k][l][2])


\* C21: a smoothing call whose named field is absent from the dataset, and a
\* call of apply_gaussian_filter while ds_latlon is not set, fails with
\* ValueError ("... not found" / "... not set"), and after a call that failed
\* the dataset and the attributes data, ds_latlon, ds_xy and gdf are as they
\* were before it.
SmoothFailsUnchanged ==
    pc = "done" =>
        /\ (\/ entry.ds_latlon.is_none
            \/ args.variable_name \notin DOMAIN entry.ds_latlon.data_vars) =>
               ret = ValueError
        /\ ret.kind = "raise" =>
               /\ ret = ValueError
               /\ ds_latlon = entry.ds_latlon
               /\ gdf = entry.gdf
               /\ gdf_raster = entry.gdf_raster
               /\ data = <<>>
               /\ ds_xy = entry.ds_xy

\* apply_gaussian_filter was called for a field the dataset does not hold
SmoothFailsWitness ==
    /\ pc = "done"
    /\ args.op = "apply_gaussian_filter"
    /\ ~ds_latlon.is_none
    /\ args.variable_name \notin DOMAIN ds_latlon.data_vars
    /\ ret = ValueError
    /\ ds_latlon = entry.ds_latlon

\* apply_gaussian_filter was called while ds_latlon was not set
SmoothUnsetWitness ==
    /\ pc = "done"
    /\ args.op = "apply_gaussian_filter"
    /\ ds_latlon.is_none
    /\ ret = ValueError

---------------------------------------------------------------------------
(* GeoData.resample_satellite_to_glacier(gdf_glacier, gdf_raster) *)
(* gdf is gdf_glacier (the target points), gdf_raster the source points.  *)

MaxPts == 2

Locs == {0, 1, 2} \X {0, 1}

GlacierRows == [geometry : Locs, pred_masked : {NaN, Num(1)}]

RasterRows == [geometry : Locs, classes : {Num(SNOW), Num(ICE)}]

\* a rank of a row among the rows of its kind; the tables that are drawn list
\* their rows by rank (the function treats every row alike)
RowRank(r) ==
    4 * (2 * r.geometry[1] + r.geometry[2])
      + (IF "classes" \in DOMAIN r
           THEN r.classes[1]
           ELSE IF isna(r.pred_masked) THEN 0 ELSE 1)

SetMin(S) == CHOOSE m \in S : \A n \in S : m <= n

SetMax(S) == CHOOSE m \in S : \A n \in S : m >= n

\* GeoDataFrame.total_bounds: [minx, miny, maxx, maxy], four NaN for no rows
total_bounds(t) ==
    IF Len(t) = 0 THEN <<NaN, NaN, NaN, NaN>>
    ELSE LET xs == {t[i].geometry[1] : i \in DOMAIN t}
             ys == {t[i].geometry[2] : i \in DOMAIN t}
         IN  <<Num(SetMin(xs)), Num(SetMin(ys)), Num(SetMax(xs)), Num(SetMax(ys))>>

\* a comparison of two floats, False when either is NaN
GeF(a, b) == ~isna(a) /\ ~isna(b) /\ a[1] >= b[1]

LeF(a, b) == ~isna(a) /\ ~isna(b) /\ a[1] <= b[1]

\* mutant: the upper y bound is not compared
BoundsWithinNoMaxY(bounding_box, raster_bounds) ==
    /\ GeF(bounding_box[1], raster_bounds[1])
    /\ GeF(bounding_box[2], raster_bounds[2])
    /\ LeF(bounding_box[3], raster_bounds[3])

\* "Problem 1": the glacier bounds are within the raster bounds
BoundsWithin(bounding_box, raster_bounds) ==
    /\ GeF(bounding_box[1], raster_bounds[1])
    /\ GeF(bounding_box[2], raster_bounds[2])
    /\ LeF(bounding_box[3], raster_bounds[3])
    /\ LeF(bounding_box[4], raster_bounds[4])

\* mutant: points on the edge of the box are dropped
InBoxOpen(pt, bounding_box) ==
    /\ ~isna(bounding_box[1])
    /\ bounding_box[1][1] < pt[1] /\ bounding_box[3][1] > pt[1]
    /\ bounding_box[2][1] < pt[2] /\ bounding_box[4][1] > pt[2]

\* Point(x, y) intersects box(*bounding_box): the box is closed
InBox(pt, bounding_box) ==
    /\ Le(bounding_box[1], pt[1]) /\ Ge(bounding_box[3], pt[1])
    /\ Le(bounding_box[2], pt[2]) /\ Ge(bounding_box[4], pt[2])

\* mutant: nothing is clipped away
ClipNothing(t, bounding_box) == t

\* gpd.clip(gdf_raster, bbox_polygon) for a frame of points: the rows whose
\* point intersects the polygon
clip(t, bounding_box) == SelectSeq(t, LAMBDA r : InBox(r.geometry, bounding_box))

Dist2(p, q) == (p[1] - q[1]) * (p[1] - q[1]) + (p[2] - q[2]) * (p[2] - q[2])

\* tree.query(points_coords): for each point the index of a nearest row of t;
\* which one among equally near rows is the tree's choice
NearestIndices(points, t) ==
    {ix \in [DOMAIN points -> DOMAIN t] :
        \A i \in DOMAIN points : \A k \in DOMAIN t :
            Dist2(points[i].geometry, t[ix[i]].geometry)
                <= Dist2(points[i].geometry, t[k].geometry)}

\* mutant: the borrowed class is kept whatever pred_masked is
KeepBorrowed(pred, cls) == cls

\* np.where(gdf_glacier['pred_masked'].isna(), np.nan, classes), one element
NanWherePredNa(pred, cls) == IF isna(pred) THEN NaN ELSE cls

resample_satellite_to_glacier ==
    /\ pc = "ready"
    /\ pc' = "done"
    /\ LET bounding_box == total_bounds(gdf)
           raster_bounds == total_bounds(gdf_raster)
           gdf_clipped == clip(gdf_raster, bounding_box)
       IN  IF ~BoundsWithin(bounding_box, raster_bounds)
             THEN ret' = [kind |-> "int", value |-> 0]
           ELSE IF Len(gdf_clipped) = 0
             THEN ret' = [kind |-> "int", value |-> 1]
           ELSE \E indices \in NearestIndices(gdf, gdf_clipped) :
                  ret' = [kind |-> "gdf",
                          value |-> [i \in DOMAIN gdf |->
                              [geometry |-> gdf[i].geometry,
                               classes |-> NanWherePredNa(gdf[i].pred_masked,
                                              gdf_clipped[indices[i]].classes)]]]
    /\ UNCHANGED <<gdf, gdf_raster, ds_latlon, args, entry, data, ds_xy, fs>>

InitResample ==
    /\ pc = "ready"
    /\ gdf \in RankedTablesUpTo(GlacierRows, [r \in GlacierRows |-> RowRank(r)], MaxPts)
    /\ gdf_raster \in
           RankedTablesUpTo(RasterRows, [r \in RasterRows |-> RowRank(r)], MaxPts)
    /\ ds_latlon = NoDataset
    /\ args = [op |-> "resample_satellite_to_glacier"]
    /\ ret = NoRet
    /\ InitRest
    /\ entry = Entry

NextResample == resample_satellite_to_glacier

SpecResample == InitResample /\ [][NextResample]_vars

Resampled == pc = "done" /\ ret.kind = "gdf"

\* some target point lies left of, below, right of or above every source point:
\* target minx < source minx, or miny < miny, or maxx > maxx, or maxy > maxy
TargetOutsideSource ==
    \E i \in DOMAIN gdf :
        \/ \A k \in DOMAIN gdf_raster : gdf[i].geometry[1] < gdf_raster[k].geometry[1]
        \/ \A k \in DOMAIN gdf_raster : gdf[i].geometry[2] < gdf_raster[k].geometry[2]
        \/ \A k \in DOMAIN gdf_raster : gdf[i].geometry[1] > gdf_raster[k].geometry[1]
        \/ \A k \in DOMAIN gdf_raster : gdf[i].geometry[2] > gdf_raster[k].geometry[2]

\* source row k lies in the bounding box of the target points (edges included)
InTargetBox(k) ==
    \E a, b, c, d \in DOMAIN gdf :
        /\ gdf[a].geometry[1] <= gdf_raster[k].geometry[1]
        /\ gdf_raster[k].geometry[1] <= gdf[b].geometry[1]
        /\ gdf[c].geometry[2] <= gdf_raster[k].geometry[2]
        /\ gdf_raster[k].geometry[2] <= gdf[d].geometry[2]

\* C3: whenever a corner of the target bounding box is outside the source
\* bounding box, the call returns the integer 0 (a value, not an error).
CoverageSentinel ==
    (pc = "done" /\ TargetOutsideSource) => ret = [kind |-> "int", value |-> 0]

\* the spec's example up to scale: target bbox [0,0,1,1] against source bbox
\* [1,1,2,1] (target minx and miny below the source's) returned 0
CoverageWitness ==
    /\ pc = "done"
    /\ total_bounds(gdf) = <<Num(0), Num(0), Num(1), Num(1)>>
    /\ total_bounds(gdf_raster) = <<Num(1), Num(1), Num(2), Num(1)>>
    /\ ret = [kind |-> "int", value |-> 0]

\* C4: target bounding box within the source bounding box and no source point
\* in the target bounding box: the call returns the integer 1, which is neither
\* 0 nor a table; and 1 is returned in that case only, so a target that is not
\* covered gets 0 even when no source point lies in its box.
NoDataSentinel ==
    pc = "done" =>
        LET covered == Len(gdf) > 0 /\ Len(gdf_raster) > 0 /\ ~TargetOutsideSource
            nodata == \A k \in DOMAIN gdf_raster : ~InTargetBox(k)
        IN  /\ (covered /\ nodata) => ret = [kind |-> "int", value |-> 1]
            /\ ret = [kind |-> "int", value |-> 1] => (covered /\ nodata)
            /\ (~covered /\ nodata) => ret = [kind |-> "int", value |-> 0]

\* one target point strictly between two source points: covered, nothing in
\* its box, 1 returned
NoDataWitness ==
    /\ pc = "done"
    /\ Len(gdf) = 1
    /\ \E k, l \in DOMAIN gdf_raster :
        /\ gdf_raster[k].geometry[1] < gdf[1].geometry[1]
        /\ gdf_raster[l].geometry[1] > gdf[1].geometry[1]
    /\ ret = [kind |-> "int", value |-> 1]

\* source row k is a nearest row to target row i among the source rows in S
NearestAmong(i, k, S) ==
    /\ k \in S
    /\ \A l \in S : Dist2(gdf[i].geometry, gdf_raster[k].geometry)
                        <= Dist2(gdf[i].geometry, gdf_raster[l].geometry)

\* C5 as stated: the returned table has one row per target row at the target's
\* location, and a row with a present pred_masked has the class of a source
\* point nearest to it among all source points.
ResampleNearestOfAll ==
    Resampled =>
        /\ Len(ret.value) = Len(gdf)
        /\ \A i \in DOMAIN gdf :
            /\ ret.value[i].geometry = gdf[i].geometry
            /\ ~isna(gdf[i].pred_masked) =>
                 \E k \in DOMAIN gdf_raster :
                    /\ NearestAmong(i, k, DOMAIN gdf_raster)
                    /\ ret.value[i].classes = gdf_raster[k].classes

\* C5 amended: ... has the class of a source point nearest to it among the
\* source points that lie in the target bounding box.
ResampleNearestInBox ==
    Resampled =>
        /\ Len(ret.value) = Len(gdf)
        /\ \A i \in DOMAIN gdf :
            /\ ret.value[i].geometry = gdf[i].geometry
            /\ ~isna(gdf[i].pred_masked) =>
                 \E k \in DOMAIN gdf_raster :
                    /\ NearestAmong(i, k, {l \in DOMAIN gdf_raster : InTargetBox(l)})
                    /\ ret.value[i].classes = gdf_raster[k].classes

\* a target row took the class of the source point in the box although a
\* source point of the other class, outside the box, is strictly nearer
ResampleWitness ==
    /\ Resampled
    /\ \E i \in DOMAIN gdf : \E k, l \in DOMAIN gdf_raster :
        /\ ~isna(gdf[i].pred_masked)
        /\ InTargetBox(k) /\ ~InTargetBox(l)
        /\ Dist2(gdf[i].geometry, gdf_raster[l].geometry)
              < Dist2(gdf[i].geometry, gdf_raster[k].geometry)
        /\ gdf_raster[k].classes # gdf_raster[l].classes
        /\ ret.value[i].classes = gdf_raster[k].classes

\* C6: in the returned table a row whose pred_masked is NaN has a NaN class,
\* whatever the source classes; a row whose pred_masked is present has a class
\* borrowed from a source row.
MissingPredMissingClass ==
    Resampled =>
        \A i \in DOMAIN gdf :
            /\ isna(gdf[i].pred_masked) => isna(ret.value[i].classes)
            /\ ~isna(gdf[i].pred_masked) =>
                 \E k \in DOMAIN gdf_raster :
                    ret.value[i].classes = gdf_raster[k].classes

\* two target rows at the same place, one with a missing pred_masked: its class
\* is NaN while the other row has the class of the source point at that place
MissingPredWitness ==
    /\ Resampled
    /\ \E i, j \in DOMAIN gdf : \E k \in DOMAIN gdf_raster :
        /\ gdf[i].geometry = gdf[j].geometry
        /\ gdf_raster[k].geometry = gdf[i].geometry
        /\ isna(gdf[i].pred_masked) /\ isna(ret.value[i].classes)
        /\ ~isna(gdf[j].pred_masked)
        /\ ret.value[j].classes = gdf_raster[k].classes

---------------------------------------------------------------------------
(* IceSnowCover(gdf_class, gdf_class_raster) *)
(* gdf is gdf_class, gdf_raster is gdf_class_raster; both have the same   *)
(* index (the resampled table is built on the index of the glacier table) *)

Classes == {NaN, Num(SNOW), Num(ICE), Num(CLOUD)}

\* the table of n rows whose classes column is cs
ClassTable(cs) == [i \in DOMAIN cs |-> [geometry |-> <<i, 0>>, classes |-> cs[i]]]

RECURSIVE Gcd(_, _)
Gcd(a, b) == IF b = 0 THEN a ELSE Gcd(b, a % b)

\* the float n / d of two counts (numpy integers): 0 / 0 is nan, with a
\* warning and no exception; a quotient is kept as the reduced pair <<n, d>>
TrueDivide(n, d) ==
    IF d = 0 THEN NaN ELSE <<n \div Gcd(n, d), d \div Gcd(n, d)>>

\* mutant: every row passes the cloud filter
KeepAllRows(t, raster) == t

\* gdf_class[gdf_class_raster.classes != 5]
ValidClasses(t, raster) ==
    LET keep == {i \in DOMAIN t : Ne(raster[i].classes, CLOUD)}
        RECURSIVE Take(_)
        Take(i) == IF i > Len(t) THEN <<>>
                   ELSE (IF i \in keep THEN <<t[i]>> ELSE <<>>) \o Take(i + 1)
    IN  Take(1)

\* mutant: the length of the column, missing values included
SizeOf(col) == Len(col)

\* Series.count(): the number of non-missing values
Count(col) == Len(SelectSeq(col, LAMBDA c : ~isna(c)))

ClassesOf(t) == [i \in DOMAIN t |-> t[i].classes]

IceSnowCover ==
    /\ pc = "ready"
    /\ pc' = "done"
    /\ LET valid_classes == ClassesOf(ValidClasses(gdf, gdf_raster))
           snow == SelectSeq(valid_classes, LAMBDA c : Eq(c, SNOW))
       IN  ret' = [kind |-> "float",
                   value |-> TrueDivide(Count(snow), Count(valid_classes))]
    /\ UNCHANGED <<gdf, gdf_raster, ds_latlon, args, entry, data, ds_xy, fs>>

InitCover ==
    /\ pc = "ready"
    /\ \E n \in 0..MaxRows : \E cs, rs \in [1..n -> Classes] :
        /\ gdf = ClassTable(cs)
        /\ gdf_raster = ClassTable(rs)
    /\ ds_latlon = NoDataset
    /\ args = [op |-> "IceSnowCover"]
    /\ ret = NoRet
    /\ InitRest
    /\ entry = Entry

NextCover == IceSnowCover

SpecCover == InitCover /\ [][NextCover]_vars

\* the rows of t that have class c / a present class other than cloud
RowsOfClass(t, c) == {i \in DOMAIN t : t[i].classes = Num(c)}

RowsNotCloud(t) ==
    {i \in DOMAIN t : t[i].classes # NaN /\ t[i].classes # Num(CLOUD)}

RowsPresent(t) == {i \in DOMAIN t : t[i].classes # NaN}

\* C7 as stated, about the one table gdf_class: the result is
\* count(class = 1) / count(class present and not 5) of that table.
CoverOfOneTable ==
    pc = "done" =>
        ret.value = TrueDivide(Cardinality(RowsOfClass(gdf, SNOW)),
                               Cardinality(RowsNotCloud(gdf)))

\* C7 amended: the rows that count are those whose class in gdf_class_raster
\* is not 5; the result is, over these rows, count(gdf_class class = 1) /
\* count(gdf_class class present).  When the same table is passed for both
\* arguments this is count(class = 1) / count(class present and not 5).
CoverOverUnclouded ==
    pc = "done" =>
        LET unclouded == {i \in DOMAIN gdf : gdf_raster[i].classes # Num(CLOUD)}
        IN  /\ ret.kind = "float"
            /\ ret.value =
                 TrueDivide(Cardinality(RowsOfClass(gdf, SNOW) \cap unclouded),
                            Cardinality(RowsPresent(gdf) \cap unclouded))
            /\ gdf_raster = gdf =>
                 ret.value = TrueDivide(Cardinality(RowsOfClass(gdf, SNOW)),
                                        Cardinality(RowsNotCloud(gdf)))

\* one table passed twice, with a snow, an ice and a cloud row: 1 / 2
CoverWitness ==
    /\ pc = "done"
    /\ gdf_raster = gdf
    /\ ClassesOf(gdf) = <<Num(SNOW), Num(CLOUD), Num(ICE)>>
    /\ ret.value = <<1, 2>>

---------------------------------------------------------------------------
(* replace_clouds_with_nearest_neighbor(gdf, class_column = 'classes',     *)
(*                                      cloud_class)                        *)

MaxCloudRows == 4

CloudRows == [geometry : {<<0, 0>>, <<1, 0>>, <<2, 1>>, <<3, 1>>}, classes : Classes]

\* the tables that are drawn list their rows by place, then class
CloudRank(r) ==
    6 * (r.geometry[1] + r.geometry[2]) + (IF isna(r.classes) THEN 0 ELSE r.classes[1])

CloudClasses == {CLOUD, ICE}

\* mutant: rows with a missing class are taken for cloud rows too
CloudIndexWithNa(t, cloud_class) ==
    {i \in DOMAIN t : isna(t[i].classes) \/ Eq(t[i].classes, cloud_class)}

\* the index labels of gdf[gdf[class_column] == cloud_class]
CloudIndex(t, cloud_class) == {i \in DOMAIN t : Eq(t[i].classes, cloud_class)}

\* the index labels of the rows with class != cloud_class and notna()
NonCloudIndex(t, cloud_class) ==
    {i \in DOMAIN t : Ne(t[i].classes, cloud_class) /\ ~isna(t[i].classes)}

\* mutant: every cloud row is given the neighbour of the first cloud row
FirstNeighbourForAll(t, cloud, non_cloud) ==
    {nb \in [cloud -> non_cloud] :
        /\ \A i \in cloud : nb[i] = nb[SetMin(cloud)]
        /\ \A k \in non_cloud :
            Dist2(t[SetMin(cloud)].geometry, t[nb[SetMin(cloud)]].geometry)
                <= Dist2(t[SetMin(cloud)].geometry, t[k].geometry)}

\* NearestNeighbors(n_neighbors = 1).fit(non_cloud_coords).kneighbors(
\* cloud_coords): for each cloud row a nearest non-cloud row; which one among
\* equally near rows is the search's choice
kneighbors(t, cloud, non_cloud) ==
    {nb \in [cloud -> non_cloud] :
        \A i \in cloud : \A k \in non_cloud :
            Dist2(t[i].geometry, t[nb[i]].geometry)
                <= Dist2(t[i].geometry, t[k].geometry)}

\* cloud_pixels.empty or non_cloud_pixels.empty
NothingToDo(cloud, non_cloud) == cloud = {} \/ non_cloud = {}

\* the call changes gdf in place and returns it (ret.value is gdf itself)
replace_clouds_with_nearest_neighbor(cloud_class) ==
    /\ pc = "ready"
    /\ pc' = "done"
    /\ args' = [op |-> "replace_clouds_with_nearest_neighbor",
                cloud_class |-> cloud_class]
    /\ LET cloud_pixels == CloudIndex(gdf, cloud_class)
           non_cloud_pixels == NonCloudIndex(gdf, cloud_class)
       IN  IF NothingToDo(cloud_pixels, non_cloud_pixels)
             THEN UNCHANGED gdf
           ELSE \E indices \in kneighbors(gdf, cloud_pixels, non_cloud_pixels) :
                  gdf' = [i \in DOMAIN gdf |->
                             IF i \in cloud_pixels
                               THEN [gdf[i] EXCEPT !.classes = gdf[indices[i]].classes]
                               ELSE gdf[i]]
    /\ ret' = [kind |-> "gdf", value |-> gdf']
    /\ UNCHANGED <<gdf_raster, ds_latlon, entry, data, ds_xy, fs>>

InitClouds ==
    /\ pc = "ready"
    /\ gdf \in RankedTablesUpTo(CloudRows, [r \in CloudRows |-> CloudRank(r)],
                                MaxCloudRows)
    /\ gdf_raster = <<>>
    /\ ds_latlon = NoDataset
    /\ args = [op |-> "none", cloud_class |-> CLOUD]
    /\ ret = NoRet
    /\ InitRest
    /\ entry = Entry

NextClouds == \E c \in CloudClasses : replace_clouds_with_nearest_neighbor(c)

SpecClouds == InitClouds /\ [][NextClouds]_vars

\* rows of the table as it was at the call: cloud rows and usable rows
WasCloud(i) == entry.gdf[i].classes = Num(args.cloud_class)

WasUsable(i) ==
    entry.gdf[i].classes # NaN /\ entry.gdf[i].classes # Num(args.cloud_class)

\* C9: when the table has a row with a present class other than cloud_class,
\* every row that had cloud_class has afterwards the class of a row nearest
\* to it among the present non-cloud rows; the other rows keep their class
\* and no row carries cloud_class any more.
CloudsReplaced ==
    (pc = "done" /\ \E u \in DOMAIN entry.gdf : WasUsable(u)) =>
        /\ ret.value = gdf
        /\ Len(gdf) = Len(entry.gdf)
        /\ \A i \in DOMAIN gdf :
            /\ gdf[i].classes # Num(args.cloud_class)
            /\ gdf[i].geometry = entry.gdf[i].geometry
            /\ ~WasCloud(i) => gdf[i].classes = entry.gdf[i].classes
            /\ WasCloud(i) =>
                 \E k \in DOMAIN gdf :
                    /\ WasUsable(k)
                    /\ gdf[i].classes = entry.gdf[k].classes
                    /\ \A l \in DOMAIN gdf : WasUsable(l) =>
                         Dist2(gdf[i].geometry, gdf[k].geometry)
                            <= Dist2(gdf[i].geometry, gdf[l].geometry)

\* two cloud rows were given different classes, each that of its own nearest
\* usable row
CloudsWitness ==
    /\ pc = "done"
    /\ args.cloud_class = CLOUD
    /\ \E i, j \in DOMAIN gdf :
        /\ WasCloud(i) /\ WasCloud(j)
        /\ gdf[i].classes = Num(SNOW)
        /\ gdf[j].classes = Num(ICE)

\* C10: when the table has no present non-cloud row, and also when it has no
\* cloud row, the call returns the table it was given with every class (and
\* every other column) as it was.
CloudsIdentity ==
    (pc = "done" /\ (\/ \A i \in DOMAIN entry.gdf : ~WasUsable(i)
                     \/ \A i \in DOMAIN entry.gdf : ~WasCloud(i))) =>
        /\ ret = [kind |-> "gdf", value |-> entry.gdf]
        /\ gdf = entry.gdf

\* a table of cloud and missing rows only came back unchanged
IdentityWitness ==
    /\ pc = "done"
    /\ \E i, j \in DOMAIN entry.gdf : WasCloud(i) /\ entry.gdf[j].classes = NaN
    /\ \A i \in DOMAIN entry.gdf : ~WasUsable(i)
    /\ ret.value = entry.gdf

---------------------------------------------------------------------------
(* classify_elevation_bands(gdf_glacier, band_size) *)

BandSizes == {2, 3}

\* mutant: the quotient is truncated towards zero
TruncDiv(a, b) == IF a >= 0 THEN a \div b ELSE -((-a) \div b)

\* Series.floordiv: the floor of the quotient, also for a negative dividend
FloorDiv(a, b) == a \div b

\* .fillna(-1).floordiv(band_size) * band_size, one element
BandOfFilled(elev, band_size) ==
    LET filled == IF isna(elev) THEN -1 ELSE elev[1]
    IN  Num(FloorDiv(filled, band_size) * band_size)

\* col in gdf.columns, for the table t: the empty table stands for the empty
\* frame that has the column and for the one that has not
HasColumn(t, col) ==
    IF t = <<>> THEN BOOLEAN ELSE {\A i \in DOMAIN t : col \in DOMAIN t[i]}

\* the table with the column elev_band: the band of the filled elevation,
\* then None on the rows whose elevation is missing
ElevBanded(t, band_size) ==
    [i \in DOMAIN t |->
        SetCol(t[i], "elev_band",
               IF isna(t[i].elev_masked) THEN NaN
               ELSE BandOfFilled(t[i].elev_masked, band_size))]

\* the call adds the column to its argument and returns the argument
classify_elevation_bands(band_size) ==
    /\ pc = "ready"
    /\ pc' = "done"
    /\ args' = [op |-> "classify_elevation_bands", band_size |-> band_size]
    /\ \E has \in HasColumn(gdf, "elev_masked") :
        IF ~has
          THEN ret' = ValueError /\ UNCHANGED gdf
        ELSE /\ gdf' = ElevBanded(gdf, band_size)
             /\ ret' = [kind |-> "gdf", value |-> gdf']
    /\ UNCHANGED <<gdf_raster, ds_latlon, entry, data, ds_xy, fs>>

\* C14: after classify_elevation_bands every row with a present elevation e has
\* the band B, a multiple of band_size with B <= e < B + band_size (also for
\* e < 0), and every row with a missing elevation has a missing band, not the
\* band of the placeholder -1.
BandsAreFloors ==
    (pc = "done" /\ ret.kind = "gdf") =>
        \A i \in DOMAIN gdf :
            LET e == entry.gdf[i].elev_masked
                B == gdf[i].elev_band
            IN  /\ isna(e) => isna(B)
                /\ ~isna(e) =>
                     /\ ~isna(B)
                     /\ B[1] % args.band_size = 0
                     /\ B[1] <= e[1]
                     /\ e[1] < B[1] + args.band_size

\* a table with a negative elevation off a band edge, a positive one and a
\* missing one was banded
BandsWitness ==
    /\ pc = "done" /\ ret.kind = "gdf"
    /\ args.band_size = 2
    /\ \E i, j, k \in DOMAIN gdf :
        /\ gdf[i].elev_masked = Num(-3) /\ gdf[i].elev_band = Num(-4)
        /\ gdf[j].elev_masked = Num(5) /\ gdf[j].elev_band = Num(4)
        /\ isna(gdf[k].elev_masked) /\ isna(gdf[k].elev_band)

---------------------------------------------------------------------------
(* snowline(gdf, class_value, percentage_threshold) *)

MaxBandRows == 4

BandRows == [geometry : {<<0, 0>>}, elev_band : {NaN, Num(0), Num(50), Num(100)},
             classes : {NaN, Num(SNOW), Num(ICE)}]

\* the tables that are drawn list their rows by band, then class
BandRank(r) ==
    4 * (IF isna(r.elev_band) THEN 0 ELSE 1 + r.elev_band[1])
      + (IF isna(r.classes) THEN 0 ELSE r.classes[1])

ClassValues == {SNOW, ICE}

\* percentage_threshold, in percent (positive)
Thresholds == {20, 50}

\* the rows of band b with the class c / with a present class
BandClassRows(t, b, c) ==
    {i \in DOMAIN t : Eq(t[i].elev_band, b) /\ Eq(t[i].classes, c)}

BandValidRows(t, b) ==
    {i \in DOMAIN t : Eq(t[i].elev_band, b) /\ ~isna(t[i].classes)}

\* the index of class_percentage: groupby('elev_band') drops the rows without a
\* band, value_counts the rows without a class, and .xs(class_value, level=1)
\* keeps the bands in which class_value occurs
BandsWithClass(t, class_value) ==
    {t[i].elev_band[1] : i \in {k \in DOMAIN t :
        ~isna(t[k].elev_band) /\ Eq(t[k].classes, class_value)}}

\* value_counts(normalize=True) * 100 >= percentage_threshold for band b
MeetsThreshold(t, b, class_value, percentage_threshold) ==
    100 * Cardinality(BandClassRows(t, b, class_value))
        >= percentage_threshold * Cardinality(BandValidRows(t, b))

None == <<>>

\* mutant: the bands are scanned from the highest one down
LastQualifying(S) == IF S = {} THEN None ELSE Num(SetMax(S))

\* the loop over class_percentage.items(), which lists the bands in ascending
\* order (groupby sorts its keys): the first band of S, None when S is empty
FirstQualifying(S) == IF S = {} THEN None ELSE Num(SetMin(S))

\* mutant: the rows of the selected band and of every band above it
SelectedFrom(band, first_band) ==
    ~isna(band) /\ ~isna(first_band) /\ band[1] >= first_band[1]

\* gdf['elev_band'] == first_band, one element; False when first_band is None
SelectedBand(band, first_band) ==
    ~isna(band) /\ ~isna(first_band) /\ band[1] = first_band[1]

\* the body of snowline on the table t: KeyError from groupby('elev_band')
\* ['classes'] when a column is missing and from .xs when no band holds
\* class_value, else the table with selected_band and the band
Snowline(t, class_value, percentage_threshold) ==
    IF \E i \in DOMAIN t : ~({"elev_band", "classes"} \subseteq DOMAIN t[i])
      THEN Raise("KeyError")
    ELSE LET class_percentage == BandsWithClass(t, class_value)
             first_band == FirstQualifying(
                 {b \in class_percentage :
                     MeetsThreshold(t, b, class_value, percentage_threshold)})
         IN  IF class_percentage = {}
               THEN Raise("KeyError")
             ELSE [kind |-> "tuple",
                   gdf |-> [i \in DOMAIN t |->
                               SetCol(t[i], "selected_band",
                                      SelectedBand(t[i].elev_band, first_band))],
                   first_band |-> first_band]

\* the call adds the column selected_band to its argument and returns
\* (gdf, first_band)
snowline(class_value, percentage_threshold) ==
    /\ pc = "ready"
    /\ pc' = "done"
    /\ args' = [op |-> "snowline", class_value |-> class_value,
                percentage_threshold |-> percentage_threshold]
    /\ ret' = Snowline(gdf, class_value, percentage_threshold)
    /\ gdf' = IF ret'.kind = "raise" THEN gdf ELSE ret'.gdf
    /\ UNCHANGED <<gdf_raster, ds_latlon, entry, data, ds_xy, fs>>

InitSnowline ==
    /\ pc = "ready"
    /\ gdf \in RankedTablesUpTo(BandRows, [r \in BandRows |-> BandRank(r)],
                                MaxBandRows)
    /\ gdf_raster = <<>>
    /\ ds_latlon = NoDataset
    /\ args = [op |-> "snowline", class_value |-> SNOW, percentage_threshold |-> 20]
    /\ ret = NoRet
    /\ InitRest
    /\ entry = Entry

NextSnowline == \E c \in ClassValues, p \in Thresholds : snowline(c, p)

SpecSnowline == InitSnowline /\ [][NextSnowline]_vars

\* band b (a number) qualifies: of its rows with a present class, the share
\* that has class_value is at least percentage_threshold percent
Qualifies(b) ==
    LET rows == {i \in DOMAIN entry.gdf : entry.gdf[i].elev_band = Num(b)}
        valid == {i \in rows : entry.gdf[i].classes # NaN}
        hits == {i \in rows : entry.gdf[i].classes = Num(args.class_value)}
    IN  /\ valid # {}
        /\ 100 * Cardinality(hits) >= args.percentage_threshold * Cardinality(valid)

QualifyingBands == {b \in {0, 50, 100} : Qualifies(b)}

\* C11: when some band qualifies, snowline returns the lowest qualifying band
\* (percentage_threshold > 0): no band below it qualifies, and a higher band is
\* not returned in its place whatever its percentage.
SnowlineLowestBand ==
    (pc = "done" /\ QualifyingBands # {}) =>
        /\ ret.kind = "tuple"
        /\ ret.first_band # None
        /\ ret.first_band[1] \in QualifyingBands
        /\ \A b \in QualifyingBands : ret.first_band[1] <= b

\* the spec's example in small: band 0 below the threshold of 50 percent (1 of
\* 3), band 50 at 100 percent: band 50 is returned
SnowlineWitness ==
    /\ pc = "done"
    /\ args.class_value = SNOW /\ args.percentage_threshold = 50
    /\ Cardinality(BandClassRows(entry.gdf, 0, SNOW)) = 1
    /\ Cardinality(BandValidRows(entry.gdf, 0)) = 3
    /\ QualifyingBands = {50}
    /\ ret.kind = "tuple" /\ ret.first_band = Num(50)

\* C12 as stated: whenever no band qualifies, also when no row carries
\* class_value, snowline returns None as the band and does not fail.
SnowlineNoneWhenNoBand ==
    (pc = "done" /\ QualifyingBands = {}) =>
        ret.kind = "tuple" /\ ret.first_band = None

\* C13: after snowline has returned, selected_band is TRUE on exactly the rows
\* whose elev_band equals the returned band, FALSE on the others (rows without
\* a band included), and FALSE on every row when the returned band is None.
SelectedExactlyTheBand ==
    (pc = "done" /\ ret.kind = "tuple") =>
        /\ ret.gdf = gdf
        /\ \A i \in DOMAIN gdf :
            /\ gdf[i].selected_band \in BOOLEAN
            /\ gdf[i].selected_band <=>
                 (ret.first_band # None /\ gdf[i].elev_band = ret.first_band)

\* the lowest of three bands was returned: its rows are flagged, the rows of the
\* bands above it and a row without a band are not
SelectedWitness ==
    /\ pc = "done" /\ ret.kind = "tuple"
    /\ ret.first_band = Num(0)
    /\ \E i, j, k \in DOMAIN gdf :
        /\ gdf[i].elev_band = Num(0) /\ gdf[i].selected_band
        /\ gdf[j].elev_band = Num(50) /\ ~gdf[j].selected_band
        /\ isna(gdf[k].elev_band) /\ ~gdf[k].selected_band

\* no band reached the threshold although class_value occurs: None was
\* returned and no row is flagged
SelectedNoneWitness ==
    /\ pc = "done" /\ ret.kind = "tuple"
    /\ ret.first_band = None
    /\ Len(gdf) > 1
    /\ \A i \in DOMAIN gdf : ~gdf[i].selected_band

---------------------------------------------------------------------------
(* AddSnowline(gdf_glacier_corr, band_size, percentage_threshold), and the *)
(* tables classify_elevation_bands and AddSnowline are called on           *)

\* classify_elevation_bands, then snowline for the class 1 on the same table;
\* the table is returned, the band of snowline is dropped
AddSnowline(band_size, percentage_threshold) ==
    /\ pc = "ready"
    /\ pc' = "done"
    /\ args' = [op |-> "AddSnowline", band_size |-> band_size,
                percentage_threshold |-> percentage_threshold]
    /\ \E has \in HasColumn(gdf, "elev_masked") :
        IF ~has
          THEN ret' = ValueError /\ UNCHANGED gdf
        ELSE LET banded == ElevBanded(gdf, band_size)
                 out == Snowline(banded, 1, percentage_threshold)
             IN  IF out.kind = "raise"
                   \* the column elev_band has been added when snowline raises
                   THEN gdf' = banded /\ ret' = out
                 ELSE gdf' = out.gdf /\ ret' = [kind |-> "gdf", value |-> gdf']
    /\ UNCHANGED <<gdf_raster, ds_latlon, entry, data, ds_xy, fs>>

\* tables of elevations, a table that has no elev_masked column, and tables
\* of classified points with an elevation
InitBands ==
    /\ pc = "ready"
    /\ gdf \in TablesUpTo([geometry : {<<0, 0>>},
                             elev_masked : {NaN} \cup {Num(e) : e \in -3..5}],
                            MaxRows)
               \cup TablesUpTo([geometry : {<<0, 0>>},
                                 pred_masked : {NaN, Num(1)}], 1)
               \cup TablesUpTo([geometry : {<<0, 0>>},
                                 elev_masked : {NaN, Num(0), Num(3)},
                                 classes : {NaN, Num(SNOW), Num(ICE)}], MaxRows)
    /\ gdf_raster = <<>>
    /\ ds_latlon = NoDataset
    /\ args = [op |-> "classify_elevation_bands", band_size |-> 2]
    /\ ret = NoRet
    /\ InitRest
    /\ entry = Entry

NextBands ==
    \/ \E b \in BandSizes : classify_elevation_bands(b)
    \/ \E b \in BandSizes, p \in Thresholds : AddSnowline(b, p)

SpecBands == InitBands /\ [][NextBands]_vars

---------------------------------------------------------------------------
(* toRaster(gdf, lon, lat, file_name) *)

MaxRasterRows == 2

\* np.argmin(np.abs(axis - v)): the first index of the least distance
argmin(axis, v) ==
    CHOOSE i \in DOMAIN axis :
        /\ \A k \in DOMAIN axis : Abs(axis[i] - v) <= Abs(axis[k] - v)
        /\ \A k \in 1..(i - 1) : Abs(axis[k] - v) > Abs(axis[i] - v)

\* mutant: a cell keeps the first value written to it
AssignIfEmpty(arr, i, j, v) ==
    IF isna(arr[i][j]) THEN [arr EXCEPT ![i][j] = v] ELSE arr

\* data_array[i, j] = v
Assign(arr, i, j, v) == [arr EXCEPT ![i][j] = v]

RECURSIVE Populate(_, _, _, _, _)
\* the loop over gdf.iterrows() from row k on
Populate(t, k, lon, lat, arr) ==
    IF k > Len(t) THEN arr
    ELSE LET lon_idx == argmin(lon, t[k].geometry[1])
             lat_idx == argmin(lat, t[k].geometry[2])
         IN  Populate(t, k + 1, lon, lat,
                      Assign(arr, lat_idx, lon_idx, t[k].pred_masked))

\* from_origin(min(lon), max(lat), abs(lon[1] - lon[0]), abs(lat[1] - lat[0]))
from_origin(lon, lat) ==
    [west |-> SetMin({lon[i] : i \in DOMAIN lon}),
     north |-> SetMax({lat[i] : i \in DOMAIN lat}),
     xsize |-> Abs(lon[2] - lon[1]), ysize |-> Abs(lat[2] - lat[1])]

\* [src.bounds.left, src.bounds.right, src.bounds.bottom, src.bounds.top]
Extent(transform, nrows, ncols) ==
    <<transform.west, transform.west + ncols * transform.xsize,
      transform.north - nrows * transform.ysize, transform.north>>

GTiff(arr, transform, nodata) ==
    [data |-> arr, transform |-> transform, nodata |-> nodata]

\* the body of toRaster: the file is written, read back and returned with its
\* extent (no nodata value is set on the file)
toRasterCall(lon, lat, file_name) ==
    /\ pc' = "done"
    /\ args' = [op |-> "toRaster", lon |-> lon, lat |-> lat, file_name |-> file_name]
    /\ LET nrows == Len(lat)
           ncols == Len(lon)
           \* np.full((nrows, ncols), np.nan), then the loop
           data_array == Populate(gdf, 1, lon, lat,
                                  [i \in 1..nrows |-> [j \in 1..ncols |-> NaN]])
           transform == from_origin(lon, lat)
       IN  /\ fs' = [fs EXCEPT !.files =
                        (file_name :> GTiff(data_array, transform, None)) @@ fs.files]
           /\ ret' = [kind |-> "tuple", raster_data |-> data_array,
                      extent |-> Extent(transform, nrows, ncols)]
    /\ UNCHANGED <<gdf, gdf_raster, ds_latlon, entry, data, ds_xy>>

toRaster(lon, lat) == pc = "ready" /\ toRasterCall(lon, lat, "raster.tif")

InitToRaster ==
    /\ pc = "ready"
    \* locations on the axes' values, between two of them, and beyond their range
    /\ gdf \in TablesUpTo([geometry : {<<x, y>> : x \in {0, 1, 3}, y \in {0, 2, 3}},
                           pred_masked : {NaN, Num(1), Num(2)}], MaxRasterRows)
    /\ gdf_raster = <<>>
    /\ ds_latlon = NoDataset
    /\ args = [op |-> "toRaster", lon |-> <<0, 2>>, lat |-> <<0, 2>>,
               file_name |-> "raster.tif"]
    /\ ret = NoRet
    /\ InitRest
    /\ entry = Entry

\* coordinate axes (1-D arrays of at least two values, as from_origin reads
\* lon[1] - lon[0] and lat[1] - lat[0])
NextToRaster ==
    \E lon \in {<<0, 2>>, <<2, 0>>, <<0, 2, 4>>},
       lat \in {<<0, 2>>, <<2, 0>>, <<4, 2, 0>>} : toRaster(lon, lat)

SpecToRaster == InitToRaster /\ [][NextToRaster]_vars

\* index j of axis is the nearest to v (the first one of several at the same
\* distance)
NearestOnAxis(axis, j, v) ==
    /\ \A k \in DOMAIN axis : Abs(axis[j] - v) <= Abs(axis[k] - v)
    /\ \A k \in DOMAIN axis : Abs(axis[k] - v) = Abs(axis[j] - v) => j <= k

\* the rows of the table that map to cell (i, j) of the raster
RowsMappingTo(i, j) ==
    {k \in DOMAIN gdf :
        /\ NearestOnAxis(args.lat, i, gdf[k].geometry[2])
        /\ NearestOnAxis(args.lon, j, gdf[k].geometry[1])}

\* C15: the array returned by toRaster has the shape (len(lat), len(lon)); a
\* cell no row maps to by nearest-index lookup on each axis holds NaN, every
\* other cell holds the value of the last row, in table order, that maps to it.
RasterLastRowWins ==
    (pc = "done" /\ args.op = "toRaster") =>
        /\ DOMAIN ret.raster_data = 1..Len(args.lat)
        /\ \A i \in 1..Len(args.lat) :
            /\ DOMAIN ret.raster_data[i] = 1..Len(args.lon)
            /\ \A j \in 1..Len(args.lon) :
                LET rows == RowsMappingTo(i, j)
                IN  ret.raster_data[i][j] =
                        IF rows = {} THEN NaN ELSE gdf[SetMax(rows)].pred_masked

\* two rows with different values at different locations map to the same cell
\* (one of them lies between two axis values), and another cell stays empty
RasterWitness ==
    /\ pc = "done" /\ args.op = "toRaster"
    /\ Len(gdf) = 2
    /\ gdf[1].geometry # gdf[2].geometry
    /\ gdf[1].pred_masked = Num(1) /\ gdf[2].pred_masked = Num(2)
    /\ \E i \in DOMAIN args.lat, j \in DOMAIN args.lon :
        /\ RowsMappingTo(i, j) = {1, 2}
        /\ ret.raster_data[i][j] = Num(2)
    /\ \E i \in DOMAIN args.lat, j \in DOMAIN args.lon :
        ret.raster_data[i][j] = NaN

---------------------------------------------------------------------------
(* GeoData.xr_to_gpd, GeoData.raster_to_gpd, and toRaster on their tables *)

\* the shapes an auxiliary variable comes in on a grid of shape
\* (nrows, ncols): that shape, the transposed one, and one with a row less
AuxShapes(nrows, ncols) == {<<nrows, ncols>>, <<ncols, nrows>>, <<nrows - 1, ncols>>}

\* an auxiliary variable of a shape: every cell holds its own value
AuxGrid(shape, base) ==
    [i \in 1..shape[1] |-> [j \in 1..shape[2] |-> Num(base + 10 * i + j)]]

GridDatasets ==
    {Dataset([latitude |-> lat, longitude |-> lon, pred_masked |-> p,
              masked_elev |-> AuxGrid(se, 1000), masked_dis |-> AuxGrid(sd, 2000)]) :
        <<lat, lon, p, se, sd>> \in
            UNION {{<<la, lo, q, e, d>> :
                        \* pred_masked is NaN outside the glacier mask
                        q \in [1..Len(la) -> [1..Len(lo) -> {NaN, Num(1), Num(2)}]],
                        e \in AuxShapes(Len(la), Len(lo)),
                        d \in AuxShapes(Len(la), Len(lo))} :
                   \* the latitude axes and the longitude axes
                   <<la, lo>> \in {<<0, 2>>, <<2, 0>>} \X {<<0, 2>>, <<0, 2, 4>>}}}

\* mutant: np.meshgrid(lon, lat, indexing='ij')
MeshgridIJ(lon, lat) ==
    [lon_grid |-> [i \in DOMAIN lon |-> [j \in DOMAIN lat |-> lon[i]]],
     lat_grid |-> [i \in DOMAIN lon |-> [j \in DOMAIN lat |-> lat[j]]]]

\* np.meshgrid(lon, lat): two arrays of shape (len(lat), len(lon))
Meshgrid(lon, lat) ==
    [lon_grid |-> [i \in DOMAIN lat |-> [j \in DOMAIN lon |-> lon[j]]],
     lat_grid |-> [i \in DOMAIN lat |-> [j \in DOMAIN lon |-> lat[i]]]]

\* ndarray.flatten() of a 2-D array: row by row
Flatten(g) ==
    IF Len(g) = 0 THEN <<>>
    ELSE [k \in 1..(Len(g) * Len(g[1])) |->
             g[((k - 1) \div Len(g[1])) + 1][((k - 1) % Len(g[1])) + 1]]

\* the body of GeoData.xr_to_gpd on the dataset ds: the exception it raises,
\* or the table it assigns to self.gdf
XrToGpd(ds) ==
    IF ds.is_none
      \* None['latitude']
      THEN Raise("TypeError")
    ELSE IF ~({"latitude", "longitude", "pred_masked", "masked_elev", "masked_dis"}
                    \subseteq DOMAIN ds.data_vars)
      THEN Raise("KeyError")
    ELSE LET v == ds.data_vars
             grids == Meshgrid(v.longitude, v.latitude)
             lon_flat == Flatten(grids.lon_grid)
             lat_flat == Flatten(grids.lat_grid)
             pred_masked_data_flat == Flatten(v.pred_masked)
             masked_elev_data_flat == Flatten(v.masked_elev)
             masked_dis_data_flat == Flatten(v.masked_dis)
         IN  IF ~(/\ Len(lon_flat) = Len(lat_flat)
                  /\ Len(lat_flat) = Len(pred_masked_data_flat)
                  /\ Len(pred_masked_data_flat) = Len(masked_elev_data_flat))
               THEN Raise("AssertionError")
             ELSE IF Len(masked_dis_data_flat) # Len(pred_masked_data_flat)
               \* GeoDataFrame(...): "All arrays must be of the same length"
               THEN ValueError
             ELSE [kind |-> "gdf", value |->
                      [k \in 1..Len(lon_flat) |->
                          [geometry |-> <<lon_flat[k], lat_flat[k]>>,
                           pred_masked |-> pred_masked_data_flat[k],
                           elev_masked |-> masked_elev_data_flat[k],
                           dis_masked |-> masked_dis_data_flat[k]]]]

\* GeoData.xr_to_gpd: self.gdf becomes the table of the flattened grid
xr_to_gpd ==
    /\ pc = "ready"
    /\ args' = [op |-> "xr_to_gpd"]
    /\ LET out == XrToGpd(ds_latlon)
       IN  IF out.kind = "raise"
             THEN ret' = out /\ pc' = "done" /\ UNCHANGED gdf
           ELSE gdf' = out.value /\ ret' = [kind |-> "None"] /\ pc' = "points"
    /\ UNCHANGED <<gdf_raster, ds_latlon, entry, data, ds_xy, fs>>

\* toRaster(gdf, lon, lat, file_name) called with the table self.gdf and the
\* longitude and latitude axes of the dataset it was made from
toRasterOfGrid ==
    /\ pc = "points"
    /\ toRasterCall(ds_latlon.data_vars.longitude, ds_latlon.data_vars.latitude,
                    "raster.tif")

\* classification rasters: two rows and two columns of cells of size 2, with
\* the value 0 declared as nodata or with no nodata value (None)
RasterFiles ==
    {GTiff(d, [west |-> 0, north |-> 4, xsize |-> 2, ysize |-> 2], nd) :
        d \in [1..2 -> [1..2 -> {NaN, Num(0), Num(SNOW), Num(ICE)}]],
        nd \in {None, Num(0)}}

\* data != src.nodata, one cell: against None (or nan) every cell differs
NotNodata(cell, nodata) ==
    IF isna(nodata) THEN TRUE ELSE Ne(cell, nodata[1])

\* transform * (col + 0.5, row + 0.5), the centre of the cell in row i and
\* column j (counted from 1; the cell sizes are even)
CellCentre(transform, i, j) ==
    <<(2 * transform.west + (2 * j - 1) * transform.xsize) \div 2,
      (2 * transform.north - (2 * i - 1) * transform.ysize) \div 2>>

RECURSIVE SelectCells(_, _, _)
\* np.where(data != src.nodata): the flat indices from k on, row by row
SelectCells(flat, nodata, k) ==
    IF k > Len(flat) THEN <<>>
    ELSE (IF NotNodata(flat[k], nodata) THEN <<k>> ELSE <<>>)
             \o SelectCells(flat, nodata, k + 1)

\* GeoData.raster_to_gpd(input_raster), a static method: the table is returned
raster_to_gpd(input_raster) ==
    /\ pc = "ready"
    /\ pc' = "done"
    /\ args' = [op |-> "raster_to_gpd", input_raster |-> input_raster]
    /\ IF input_raster \notin DOMAIN fs.files
         THEN ret' = Raise("RasterioIOError")
       ELSE LET src == fs.files[input_raster]
                ncols == Len(src.data[1])
                cells == SelectCells(Flatten(src.data), src.nodata, 1)
            IN  ret' = [kind |-> "gdf", value |->
                          [n \in DOMAIN cells |->
                              LET i == ((cells[n] - 1) \div ncols) + 1
                                  j == ((cells[n] - 1) % ncols) + 1
                              IN  [geometry |-> CellCentre(src.transform, i, j),
                                   classes |-> src.data[i][j]]]]
    /\ UNCHANGED <<gdf, gdf_raster, ds_latlon, entry, data, ds_xy, fs>>

\* reproject_raster_to_lv95(input_raster, output_raster, dst_crs): the output
\* file holds the raster that rasterio's reproject makes of the input in
\* dst_crs (nearest neighbour), its zeros replaced by NaN, under the nodata
\* value of the input; nothing is written when the input cannot be opened
reproject_raster_to_lv95(input_raster, output_raster, dst_crs) ==
    /\ pc = "ready"
    /\ pc' = "done"
    /\ args' = [op |-> "reproject_raster_to_lv95", input_raster |-> input_raster,
                output_raster |-> output_raster]
    /\ IF input_raster \notin DOMAIN fs.files
         THEN ret' = Raise("RasterioIOError") /\ UNCHANGED fs
       ELSE /\ fs' = [fs EXCEPT !.files =
                        (output_raster :>
                            [reprojected |-> fs.files[input_raster], crs |-> dst_crs,
                             zeros |-> NaN, nodata |-> fs.files[input_raster].nodata])
                        @@ @]
            /\ ret' = [kind |-> "None"]
    /\ UNCHANGED <<gdf, gdf_raster, ds_latlon, entry, data, ds_xy>>

\* merge_rasters(raster1_path, raster2_path, output_path): the output file
\* holds the mosaic that rasterio's merge makes of the two rasters, its zeros
\* replaced by NaN, under the metadata of the first raster
merge_rasters(raster1_path, raster2_path, output_path) ==
    /\ pc = "ready"
    /\ pc' = "done"
    /\ args' = [op |-> "merge_rasters", output_path |-> output_path]
    /\ IF ~({raster1_path, raster2_path} \subseteq DOMAIN fs.files)
         THEN ret' = Raise("RasterioIOError") /\ UNCHANGED fs
       ELSE /\ fs' = [fs EXCEPT !.files =
                        (output_path :>
                            [mosaic |-> <<fs.files[raster1_path], fs.files[raster2_path]>>,
                             zeros |-> NaN, nodata |-> fs.files[raster1_path].nodata])
                        @@ @]
            /\ ret' = [kind |-> "None"]
    /\ UNCHANGED <<gdf, gdf_raster, ds_latlon, entry, data, ds_xy>>

InitGrid ==
    /\ pc = "ready"
    /\ gdf = <<>>
    /\ gdf_raster = <<>>
    /\ \/ ds_latlon \in GridDatasets /\ fs = NoFiles
       \/ /\ ds_latlon = NoDataset
          /\ fs \in {[dirs |-> {}, files |-> ("classes.tif" :> f)] : f \in RasterFiles}
    /\ args = [op |-> "none"]
    /\ ret = NoRet
    /\ data = <<>>
    /\ ds_xy = NoDataset
    /\ entry = Entry

NextGrid ==
    \/ xr_to_gpd
    \/ toRasterOfGrid
    \/ raster_to_gpd("classes.tif")
    \/ reproject_raster_to_lv95("classes.tif", "classes_lv95.tif", "EPSG:2056")
    \/ merge_rasters("classes.tif", "classes.tif", "merged.tif")

SpecGrid == InitGrid /\ [][NextGrid]_vars

GridShape(g) == <<Len(g), Len(g[1])>>

\* C16: xr_to_gpd followed by toRaster with the longitude and latitude axes
\* of the grid gives a raster of the grid's shape that holds, at every masked
\* cell, the grid's value at that cell, and NaN at every cell outside the mask.
RoundTripReproduces ==
    (pc = "done" /\ args.op = "toRaster") =>
        LET pred == ds_latlon.data_vars.pred_masked
        IN  /\ DOMAIN ret.raster_data = DOMAIN pred
            /\ \A i \in DOMAIN pred :
                /\ DOMAIN ret.raster_data[i] = DOMAIN pred[i]
                /\ \A j \in DOMAIN pred[i] :
                    IF pred[i][j] # NaN
                      THEN ret.raster_data[i][j] = pred[i][j]
                    ELSE ret.raster_data[i][j] = NaN

\* a grid of two rows and three columns on a descending latitude axis, with
\* different values inside the mask and a cell outside it, went both ways
RoundTripWitness ==
    /\ pc = "done" /\ args.op = "toRaster"
    /\ ds_latlon.data_vars.latitude = <<2, 0>>
    /\ Len(ds_latlon.data_vars.longitude) = 3
    /\ ds_latlon.data_vars.pred_masked[1] = <<Num(1), Num(2), NaN>>
    /\ ds_latlon.data_vars.pred_masked[2] = <<Num(2), NaN, Num(1)>>
    /\ ret.raster_data = ds_latlon.data_vars.pred_masked

\* the cells of the grid outside and inside the mask
GridCells == {<<i, j>> : i \in DOMAIN ds_latlon.data_vars.latitude,
                         j \in DOMAIN ds_latlon.data_vars.longitude}

MaskedCells == {c \in GridCells : ds_latlon.data_vars.pred_masked[c[1]][c[2]] # NaN}

LocationOf(c) ==
    <<ds_latlon.data_vars.longitude[c[2]], ds_latlon.data_vars.latitude[c[1]]>>

\* the rows of table t located at loc
RowsAt(t, loc) == {k \in DOMAIN t : t[k].geometry = loc}

RasterRead == pc = "done" /\ args.op = "raster_to_gpd" /\ ret.kind = "gdf"

RasterCells == {<<i, j>> : i \in 1..2, j \in 1..2}

\* the centre of cell c of the raster file: half a cell from its west and
\* north edges
CentreOf(c) ==
    LET tr == fs.files[args.input_raster].transform
    IN  <<tr.west + (c[2] - 1) * tr.xsize + tr.xsize \div 2,
          tr.north - (c[1] - 1) * tr.ysize - tr.ysize \div 2>>

\* C17 as stated: the conversions produce exactly one record per cell where
\* the mask is true (the cell holds data), located at that cell, and no record
\* for a cell outside the mask or without data.  (raster_to_gpd keeps the
\* cells with data != src.nodata, NaN cells among them, against its own
\* comment "Get indices of non-NaN values"; xr_to_gpd lists every cell.)
PointsOnlyWhereMasked ==
    /\ pc = "points" =>
        /\ Len(gdf) = Cardinality(MaskedCells)
        /\ \A c \in MaskedCells : Cardinality(RowsAt(gdf, LocationOf(c))) = 1
        /\ \A c \in GridCells \ MaskedCells : RowsAt(gdf, LocationOf(c)) = {}
    /\ RasterRead =>
        LET src == fs.files[args.input_raster]
            present == {c \in RasterCells :
                          /\ src.data[c[1]][c[2]] # NaN
                          /\ src.data[c[1]][c[2]] # src.nodata}
        IN  /\ Len(ret.value) = Cardinality(present)
            /\ \A c \in present : Cardinality(RowsAt(ret.value, CentreOf(c))) = 1
            /\ \A c \in RasterCells \ present : RowsAt(ret.value, CentreOf(c)) = {}

\* C18 as stated: whenever masked_elev or masked_dis has a shape different from
\* the shape of pred_masked, xr_to_gpd fails with its shape-mismatch assertion
\* and leaves the point table as it was.
ShapeMismatchFailsFast ==
    (args.op = "xr_to_gpd" /\ ~ds_latlon.is_none) =>
        LET v == ds_latlon.data_vars
        IN  (\/ GridShape(v.masked_elev) # GridShape(v.pred_masked)
             \/ GridShape(v.masked_dis) # GridShape(v.pred_masked)) =>
                ret = Raise("AssertionError") /\ gdf = entry.gdf

---------------------------------------------------------------------------
(* GeoData.save_arrays and GeoData.save_to_netcdf, statement by statement *)

\* the datasets that are saved, and the one that older files hold
DsOf(n) == Dataset([pred_masked |-> <<<<Num(n)>>>>])

OldDataset == DsOf(0)

\* a netCDF file: the dataset it holds, and whether it was written to the end
NetcdfFile(ds, complete) == [ds |-> ds, complete |-> complete]

\* a directory is absent, empty, or holds an older file of the name
Disks(filename) ==
    {[dirs |-> ds, files |-> [k \in {<<d, filename>> : d \in fds} |->
                                NetcdfFile(OldDataset, TRUE)]] :
        <<ds, fds>> \in {<<a, b>> \in (SUBSET {"wgs84/", "lv95/", "out/"})
                                      \X (SUBSET {"wgs84/", "lv95/", "out/"}) :
                            b \subseteq a}}

\* os.makedirs(path)
makedirs(disk, path) == [disk EXCEPT !.dirs = @ \cup {path}]

\* mutant: the file stays
KeepFile(disk, file) == disk

\* os.remove(path + filename)
remove(disk, file) ==
    [disk EXCEPT !.files = [k \in DOMAIN @ \ {file} |-> @[k]]]

\* ds.to_netcdf(path + filename) that ends, and one that stops on the way
WriteFile(disk, file, ds, complete) ==
    [disk EXCEPT !.files = (file :> NetcdfFile(ds, complete)) @@ @]

\* the dataset and the directory of the call of save_to_netcdf that is running
\* (call "latlon" is the first of save_arrays, call "xy" the second)
SaveDs(call) == IF call = "latlon" THEN ds_latlon ELSE ds_xy

SavePath(call) == IF call = "latlon" THEN args.path_wgs84 ELSE args.path_lv95

SaveFile(call) == <<SavePath(call), args.filename>>

SaveFrame == UNCHANGED <<gdf, gdf_raster, ds_latlon, entry, data, ds_xy>>

\* save_arrays(path_wgs84, path_lv95, filename) is called
save_arrays(path_wgs84, path_lv95, filename) ==
    /\ pc = "ready"
    /\ pc' = "latlon_makedirs"
    /\ args' = [op |-> "save_arrays", path_wgs84 |-> path_wgs84,
                path_lv95 |-> path_lv95, filename |-> filename]
    \* the disk and the datasets as they are when save_arrays is called
    /\ entry' = [fs |-> fs, ds_latlon |-> ds_latlon, ds_xy |-> ds_xy]
    /\ UNCHANGED <<ret, fs, gdf, gdf_raster, ds_latlon, data, ds_xy>>

\* if not os.path.exists(path): os.makedirs(path)
SaveMakedirs(call) ==
    /\ pc = call \o "_makedirs"
    /\ pc' = call \o "_remove"
    /\ fs' = IF SavePath(call) \notin fs.dirs THEN makedirs(fs, SavePath(call)) ELSE fs
    /\ UNCHANGED <<args, ret>>
    /\ SaveFrame

\* if os.path.exists(path + filename): os.remove(path + filename)
SaveRemove(call) ==
    /\ pc = call \o "_remove"
    /\ pc' = call \o "_write"
    /\ fs' = IF SaveFile(call) \in DOMAIN fs.files THEN remove(fs, SaveFile(call)) ELSE fs
    /\ UNCHANGED <<args, ret>>
    /\ SaveFrame

\* ds.to_netcdf(path + filename) returns; the second call follows the first
SaveWrite(call) ==
    /\ pc = call \o "_write"
    /\ ~SaveDs(call).is_none
    /\ fs' = WriteFile(fs, SaveFile(call), SaveDs(call), TRUE)
    /\ IF call = "latlon"
         THEN pc' = "xy_makedirs" /\ UNCHANGED ret
       ELSE pc' = "done" /\ ret' = [kind |-> "None"]
    /\ UNCHANGED args
    /\ SaveFrame

\* ds.to_netcdf raises: ds is None (nothing is written), or the write fails
\* before the file is created or is cut short; save_arrays ends there
SaveWriteFails(call) ==
    /\ pc = call \o "_write"
    /\ pc' = call \o "_failed"
    /\ IF SaveDs(call).is_none
         THEN ret' = Raise("AttributeError") /\ UNCHANGED fs
       ELSE /\ ret' = Raise("OSError")
            /\ \/ UNCHANGED fs
               \/ fs' = WriteFile(fs, SaveFile(call), SaveDs(call), FALSE)
    /\ UNCHANGED args
    /\ SaveFrame

\* createPath(path): the directory is made unless the path exists
createPath(path) ==
    /\ pc = "ready"
    /\ pc' = "ready"
    /\ args' = [op |-> "createPath", path |-> path]
    /\ fs' = IF path \notin fs.dirs THEN makedirs(fs, path) ELSE fs
    /\ ret' = [kind |-> "None"]
    /\ SaveFrame

\* emptyfolder(path): every file of the directory is removed (path ends with
\* the separator: the files are removed at path + f), or the directory is made
emptyfolder(path) ==
    /\ pc = "ready"
    /\ pc' = "ready"
    /\ args' = [op |-> "emptyfolder", path |-> path]
    /\ fs' = IF path \in fs.dirs
               THEN [fs EXCEPT !.files = [k \in {f \in DOMAIN @ : f[1] # path} |-> @[k]]]
             ELSE IF path \notin fs.dirs THEN makedirs(fs, path) ELSE fs
    /\ ret' = [kind |-> "None"]
    /\ SaveFrame

\* TransformToRaster(filename_nc, filename_tif, path_nc_wgs84, path_tif_wgs84,
\* path_tif_lv95): the dataset is opened and smoothed, then the call of
\* toGeoPandas, a name that is not defined, ends it; no directory and no file
\* has been made by then
TransformToRaster(filename_nc, path_nc_wgs84) ==
    /\ pc = "ready"
    /\ pc' = "ready"
    /\ args' = [op |-> "TransformToRaster", filename_nc |-> filename_nc,
                path_nc_wgs84 |-> path_nc_wgs84]
    /\ ret' = IF <<path_nc_wgs84, filename_nc>> \notin DOMAIN fs.files
                THEN Raise("FileNotFoundError")
              ELSE IF "pred_masked" \notin
                        DOMAIN fs.files[<<path_nc_wgs84, filename_nc>>].ds.data_vars
                \* GaussianFilter(ds_latlon)
                THEN ValueError
              ELSE Raise("NameError")
    /\ UNCHANGED fs
    /\ SaveFrame

InitSave ==
    /\ pc = "ready"
    /\ gdf = <<>>
    /\ gdf_raster = <<>>
    /\ ds_latlon \in {NoDataset, DsOf(1), DsOf(2)}
    /\ ds_xy \in {NoDataset, DsOf(1), DsOf(2)}
    /\ fs \in Disks("pred.nc")
    /\ args = [op |-> "none"]
    /\ ret = NoRet
    /\ entry = [fs |-> fs, ds_latlon |-> ds_latlon, ds_xy |-> ds_xy]
    /\ data = <<>>

NextSave ==
    \/ \E path \in {"wgs84/", "lv95/", "out/"} :
        \/ createPath(path)
        \/ emptyfolder(path)
        \/ TransformToRaster("pred.nc", path)
    \* (path_wgs84, path_lv95): directory names that end with the separator, as
    \* the file is opened at path + filename
    \/ \E p \in {<<"wgs84/", "lv95/">>, <<"out/", "out/">>} :
        save_arrays(p[1], p[2], "pred.nc")
    \/ \E call \in {"latlon", "xy"} :
        \/ SaveMakedirs(call)
        \/ SaveRemove(call)
        \/ SaveWrite(call)
        \/ SaveWriteFails(call)

SpecSave == InitSave /\ [][NextSave]_vars

Calls == {"latlon", "xy"}

\* C19: save_to_netcdf creates the directory and deletes the file of the
\* destination before it writes: when the write starts the directory exists and
\* no file is at the destination; after a call that returned, the destination
\* holds the new dataset and nothing else; after a write that failed or was cut
\* short, the destination holds no file or the piece that was written, and not
\* the content it had before.
SaveReplacesFile ==
    \A call \in Calls :
        /\ pc = call \o "_write" =>
            /\ SavePath(call) \in fs.dirs
            /\ SaveFile(call) \notin DOMAIN fs.files
        /\ (pc = "done" \/ (call = "latlon" /\ pc = "xy_makedirs")) =>
            /\ SavePath(call) \in fs.dirs
            /\ SaveFile(call) \in DOMAIN fs.files
            /\ fs.files[SaveFile(call)] =
                 NetcdfFile(IF SaveFile("xy") = SaveFile("latlon") /\ pc = "done"
                              THEN ds_xy ELSE SaveDs(call), TRUE)
        /\ pc = call \o "_failed" =>
            /\ SavePath(call) \in fs.dirs
            /\ \/ SaveFile(call) \notin DOMAIN fs.files
               \/ fs.files[SaveFile(call)] = NetcdfFile(SaveDs(call), FALSE)

\* the directory held an older file when save_arrays was called; the write
\* failed and the file is gone
SaveWitness ==
    /\ pc = "latlon_failed"
    /\ SaveFile("latlon") \in DOMAIN entry.fs.files
    /\ entry.fs.files[SaveFile("latlon")] = NetcdfFile(OldDataset, TRUE)
    /\ SaveFile("latlon") \notin DOMAIN fs.files

\* the directory was absent when save_arrays was called; both calls returned
SaveDoneWitness ==
    /\ pc = "done"
    /\ SavePath("xy") \notin entry.fs.dirs
    /\ SavePath("xy") \in fs.dirs
    /\ fs.files[SaveFile("xy")] = NetcdfFile(ds_xy, TRUE)

---------------------------------------------------------------------------
(* GeoData(data), its setters and the smoothing calls that follow *)

\* GeoData.set_ds_latlon(ds_or_path, path_nc_wgs84): ds_or_path is an object
\* of the class type_; the dataset is assigned, then smoothed with the
\* defaults of apply_gaussian_filter, then turned into self.gdf
set_ds_latlon(type_, ds_or_path, path_nc_wgs84) ==
    /\ pc = "ready"
    /\ pc' = "set"
    /\ args' = [op |-> "set_ds_latlon", type |-> type_]
    /\ entry' = Entry
    /\ LET full_path == <<path_nc_wgs84, ds_or_path>>
       IN  IF type_ \notin {"Dataset", "str"}
             THEN ret' = Raise("TypeError") /\ UNCHANGED <<ds_latlon, gdf>>
           ELSE IF type_ = "str" /\ full_path \notin DOMAIN fs.files
             \* xr.open_dataset of a file that does not exist
             THEN ret' = Raise("FileNotFoundError") /\ UNCHANGED <<ds_latlon, gdf>>
           ELSE LET ds == IF type_ = "Dataset" THEN ds_or_path
                          ELSE fs.files[full_path].ds
                IN  IF "pred_masked" \notin DOMAIN ds.data_vars
                      \* apply_gaussian_filter raises, the dataset is assigned
                      THEN ds_latlon' = ds /\ ret' = ValueError /\ UNCHANGED gdf
                    ELSE /\ ds_latlon' = Dataset(SetVar(ds.data_vars, "pred_masked",
                                            Smoothed(ds.data_vars.pred_masked, 1)))
                         \* self.xr_to_gpd() reads the smoothed self.ds_latlon
                         /\ LET out == XrToGpd(ds_latlon')
                            IN  IF out.kind = "raise"
                                  THEN ret' = out /\ UNCHANGED gdf
                                ELSE gdf' = out.value /\ ret' = [kind |-> "None"]
    /\ UNCHANGED <<gdf_raster, data, ds_xy, fs>>

\* GeoData.set_gdf(gdf): the table is assigned
set_gdf(table) ==
    /\ pc = "ready"
    /\ pc' = "ready"
    /\ args' = [op |-> "set_gdf"]
    /\ entry' = Entry
    /\ gdf' = table
    /\ ret' = [kind |-> "None"]
    /\ UNCHANGED <<gdf_raster, ds_latlon, data, ds_xy, fs>>

\* GeoData.set_ds_xy(ds_or_path, path_nc_xy): a Dataset is assigned, the name
\* of a file that exists is opened; any other object, the name of a file
\* that does not exist included, raises TypeError
set_ds_xy(type_, ds_or_path, path_nc_xy) ==
    /\ pc = "ready"
    /\ pc' = "ready"
    /\ args' = [op |-> "set_ds_xy", type |-> type_]
    /\ entry' = Entry
    /\ IF type_ = "Dataset"
         THEN ds_xy' = ds_or_path /\ ret' = [kind |-> "None"]
       ELSE IF type_ = "str" /\ <<path_nc_xy, ds_or_path>> \in DOMAIN fs.files
         THEN /\ ds_xy' = fs.files[<<path_nc_xy, ds_or_path>>].ds
              /\ ret' = [kind |-> "None"]
       ELSE ret' = Raise("TypeError") /\ UNCHANGED ds_xy
    /\ UNCHANGED <<gdf, gdf_raster, ds_latlon, data, fs>>

\* GeoData(data): the attributes after __init__ (None is NoDataset for the
\* datasets and the empty table for gdf); the working directory holds a
\* NetCDF file of a complete dataset
InitSmooth ==
    /\ pc = "ready"
    /\ data = <<>>
    /\ ds_latlon = NoDataset
    /\ ds_xy = NoDataset
    /\ gdf = <<>>
    /\ gdf_raster = <<>>
    /\ fs = [dirs |-> {},
             files |-> (<<"", "pred.nc">> :>
                 NetcdfFile(Dataset(GridVars({"latitude", "longitude", "pred_masked",
                                              "masked_elev", "masked_dis"},
                                             ElevGrid)), TRUE))]
    /\ args = [op |-> "none"]
    /\ ret = NoRet
    /\ entry = Entry

NextSmooth ==
    \/ \E ds \in Datasets({NaN, Num(1000)}) \cup Datasets({NaN, Num(-1000)}) :
        set_ds_latlon("Dataset", ds, "")
    \/ \E path \in {"pred.nc", "none.nc"} : set_ds_latlon("str", path, "")
    \/ set_ds_latlon("int", 123, "")
    \/ set_gdf(<<[geometry |-> <<0, 0>>, pred_masked |-> Num(1)]>>)
    \/ set_ds_xy("Dataset", fs.files[<<"", "pred.nc">>].ds, "")
    \/ \E path \in {"pred.nc", "none.nc"} : set_ds_xy("str", path, "")
    \/ set_ds_xy("int", 123, "")
    \/ \E n \in VarNames, s \in Sigmas : apply_gaussian_filter(n, s)
    \/ \E n \in VarNames, s \in Sigmas : GaussianFilter(n, s)

SpecSmooth == InitSmooth /\ [][NextSmooth]_vars

---------------------------------------------------------------------------
(* the helper functions of the scripts, each on the arguments drawn for it *)

InitHelpers ==
    \/ InitFilter
    \/ InitCover
    \/ InitClouds
    \/ InitBands
    \/ InitSnowline
    \/ InitResample

\* the initial args tell which helper the tables and datasets were drawn for
NextHelpers ==
    \/ /\ "sigma" \in DOMAIN args
       /\ \E n \in VarNames, sg \in Sigmas : GaussianFilter(n, sg)
    \/ args.op = "IceSnowCover" /\ IceSnowCover
    \/ /\ "cloud_class" \in DOMAIN args
       /\ \E c \in CloudClasses : replace_clouds_with_nearest_neighbor(c)
    \/ /\ args.op = "classify_elevation_bands"
       /\ \E b \in BandSizes : classify_elevation_bands(b)
    \/ /\ args.op = "snowline"
       /\ \E c \in ClassValues, p \in Thresholds : snowline(c, p)
    \/ args.op = "resample_satellite_to_glacier" /\ resample_satellite_to_glacier

SpecHelpers == InitHelpers /\ [][NextHelpers]_vars

ArgumentsUntouched ==
    gdf = entry.gdf /\ gdf_raster = entry.gdf_raster /\ ds_latlon = entry.ds_latlon

\* table t is table t0 with column col added (or overwritten): the same rows,
\* every other column with the values it had
SameButColumn(t, t0, col) ==
    /\ DOMAIN t = DOMAIN t0
    /\ \A i \in DOMAIN t :
        /\ DOMAIN t[i] = DOMAIN t0[i] \cup {col}
        /\ \A c \in DOMAIN t0[i] \ {col} : t[i][c] = t0[i][c]

\* C20 as stated: each of the six helpers leaves the tables and datasets
\* passed to it exactly as they were before the call.
HelpersLeaveArguments == pc = "done" => ArgumentsUntouched

\* C20, amended: GaussianFilter, IceSnowCover and resample_satellite_to_glacier
\* leave the tables and datasets passed to them exactly as they were. The three
\* others change the table passed to them and return that same table:
\* replace_clouds_with_nearest_neighbor overwrites the class of the cloud rows
\* and nothing else, classify_elevation_bands adds the column elev_band, and
\* snowline adds the column selected_band, all other columns and rows staying
\* as they were; a call of these that raises leaves the table untouched.
HelpersFrame ==
    pc = "done" =>
        /\ gdf_raster = entry.gdf_raster
        /\ ds_latlon = entry.ds_latlon
        /\ args.op \in {"GaussianFilter", "IceSnowCover",
                        "resample_satellite_to_glacier"} => gdf = entry.gdf
        /\ ret.kind = "raise" => gdf = entry.gdf
        /\ args.op = "replace_clouds_with_nearest_neighbor" =>
            /\ ret.value = gdf
            /\ DOMAIN gdf = DOMAIN entry.gdf
            /\ \A i \in DOMAIN gdf :
                /\ SameButColumn(<<gdf[i]>>, <<entry.gdf[i]>>, "classes")
                /\ entry.gdf[i].classes # Num(args.cloud_class) =>
                      gdf[i] = entry.gdf[i]
        /\ (args.op = "classify_elevation_bands" /\ ret.kind = "gdf") =>
            /\ ret.value = gdf
            /\ SameButColumn(gdf, entry.gdf, "elev_band")
        /\ (args.op = "snowline" /\ ret.kind = "tuple") =>
            /\ ret.gdf = gdf
            /\ SameButColumn(gdf, entry.gdf, "selected_band")

\* classify_elevation_bands returned: the table passed to it has a column
\* more than it had
HelpersWitness ==
    /\ pc = "done"
    /\ args.op = "classify_elevation_bands" /\ ret.kind = "gdf"
    /\ Len(gdf) = 2
    /\ \A i \in DOMAIN gdf :
        "elev_band" \in DOMAIN gdf[i] /\ "elev_band" \notin DOMAIN entry.gdf[i]

\* GaussianFilter returned a smoothed copy that differs from the dataset
\* passed to it, which is as it was
HelpersCopyWitness ==
    /\ pc = "done"
    /\ args.op = "GaussianFilter" /\ ret.kind = "Dataset"
    /\ ret.value # ds_latlon
    /\ ds_latlon = entry.ds_latlon

---------------------------------------------------------------------------
(* GeoData.pred_to_xr(ds, gdir, pred_var) *)

MaxPreds == 3

\* the OGGM grid with its coordinates x and y
OggmGrid(mask) ==
    Dataset([x |-> [j \in 1..NLon |-> 10 * j], y |-> [i \in 1..NLat |-> 10 * i],
             glacier_mask |-> mask])

\* np.where(mask == 1): the (row, column) pairs of the glacier cells, row by row
GlacierIndices(mask) ==
    LET ncols == Len(mask[1])
        flat == Flatten(mask)
        RECURSIVE From(_)
        From(k) == IF k > Len(flat) THEN <<>>
                   ELSE (IF flat[k] = 1
                           THEN <<<<((k - 1) \div ncols) + 1, ((k - 1) % ncols) + 1>>>>
                         ELSE <<>>) \o From(k + 1)
    IN  From(1)

\* np.where(pred_masked == 0, np.nan, pred_masked)
NanWhereZero(mask) ==
    [i \in DOMAIN mask |-> [j \in DOMAIN mask[i] |->
        IF mask[i][j] = 0 THEN NaN ELSE Num(mask[i][j])]]

RECURSIVE FillPredictions(_, _, _, _)
\* the loop over the glacier cells from the k-th on:
\* pred_masked[x_index, y_index] = self.data.iloc[k][pred_var]
FillPredictions(grid, cells, rows, k) ==
    IF k > Len(cells) THEN grid
    ELSE FillPredictions([grid EXCEPT ![cells[k][1]][cells[k][2]] = rows[k].pred],
                         cells, rows, k + 1)

\* np.where(pred_masked == 1, np.nan, pred_masked)
NanWhereOne(grid) ==
    [i \in DOMAIN grid |-> [j \in DOMAIN grid[i] |->
        IF Eq(grid[i][j], 1) THEN NaN ELSE grid[i][j]]]

\* GeoData.oggmToWgs84(ds, gdir): the variables of ds on the coordinates
\* longitude (of the first row) and latitude (of the first column)
oggmToWgs84(ds, gdir) ==
    LET v == ds.data_vars
    IN  Dataset([longitude |-> [j \in DOMAIN v.x |-> gdir.lon0 + v.x[j]],
                 latitude |-> [i \in DOMAIN v.y |-> gdir.lat0 + v.y[i]],
                 glacier_mask |-> v.glacier_mask,
                 pred_masked |-> v.pred_masked])

\* self.ds_xy and self.ds_latlon are set; self.data.iloc[i] fails when data
\* has fewer rows than the glacier has cells
pred_to_xr(ds, gdir) ==
    /\ pc = "ready"
    /\ pc' = "done"
    /\ args' = [op |-> "pred_to_xr", ds |-> ds, gdir |-> gdir, pred_var |-> "pred"]
    /\ LET mask == ds.data_vars.glacier_mask
           glacier_indices == GlacierIndices(mask)
       IN  IF Len(data) < Len(glacier_indices)
             THEN ret' = Raise("IndexError") /\ UNCHANGED <<ds_xy, ds_latlon>>
           ELSE LET pred_masked ==
                        NanWhereOne(FillPredictions(NanWhereZero(mask),
                                                    glacier_indices, data, 1))
                IN  /\ ds_xy' = Dataset([x |-> ds.data_vars.x, y |-> ds.data_vars.y,
                                         glacier_mask |-> mask,
                                         pred_masked |-> pred_masked])
                    /\ ds_latlon' = oggmToWgs84(ds_xy', gdir)
                    /\ ret' = [kind |-> "None"]
    /\ UNCHANGED <<gdf, gdf_raster, entry, data, fs>>

InitPred ==
    /\ pc = "ready"
    \* the predictions of self.data, one row per glacier cell
    /\ data \in TablesUpTo([pred : {NaN, Num(0), Num(1), Num(2)}], MaxPreds)
    /\ gdf = <<>>
    /\ gdf_raster = <<>>
    /\ ds_latlon = NoDataset
    /\ ds_xy = NoDataset
    /\ fs = NoFiles
    /\ args = [op |-> "none"]
    /\ ret = NoRet
    /\ entry = Entry

\* glacier_mask is 1 on the glacier and 0 elsewhere; gdir.grid.proj is the
\* shift that takes (x, y) to (longitude, latitude)
NextPred ==
    \E m \in [1..NLat -> [1..NLon -> {0, 1}]], g \in {[lon0 |-> 100, lat0 |-> 200]} :
        pred_to_xr(OggmGrid(m), g)

SpecPred == InitPred /\ [][NextPred]_vars

\* C22 as stated: after pred_to_xr, pred_masked of ds_xy holds at the k-th
\* glacier cell, in row-major order of the mask, the prediction of the k-th row
\* of data, whatever its value, and missing at every cell outside the mask.
PredGridHoldsPredictions ==
    (pc = "done" /\ ret.kind = "None") =>
        LET mask == args.ds.data_vars.glacier_mask
            cells == GlacierIndices(mask)
            grid == ds_xy.data_vars.pred_masked
        IN  /\ \A k \in DOMAIN cells : grid[cells[k][1]][cells[k][2]] = data[k].pred
            /\ \A i \in DOMAIN mask : \A j \in DOMAIN mask[i] :
                mask[i][j] = 0 => grid[i][j] = NaN

---------------------------------------------------------------------------
(* get_hydro_year_and_month(file_date) *)

DaysInMonth(y, m) ==
    IF m = 2
      THEN (IF (y % 4 = 0 /\ y % 100 # 0) \/ y % 400 = 0 THEN 29 ELSE 28)
    ELSE IF m \in {4, 6, 9, 11} THEN 30 ELSE 31

\* datetime objects: the valid dates of the years
Dates ==
    {d \in [year : 2019..2021, month : 1..12, day : 1..31] :
        d.day <= DaysInMonth(d.year, d.month)}

\* file_date - relativedelta(months=1): the same day of the month before, or
\* the last day of that month when it is shorter
MinusOneMonth(d) ==
    LET y == IF d.month = 1 THEN d.year - 1 ELSE d.year
        m == IF d.month = 1 THEN 12 ELSE d.month - 1
        dm == DaysInMonth(y, m)
    IN  [year |-> y, month |-> m, day |-> IF d.day > dm THEN dm ELSE d.day]

\* file_date.replace(day=1)
ReplaceDay1(d) == [d EXCEPT !.day = 1]

\* file_date.strftime('%b').lower()
MonthAbbr ==
    <<"jan", "feb", "mar", "apr", "may", "jun",
      "jul", "aug", "sep", "oct", "nov", "dec">>

\* mutant: the hydrological year starts in October
HydroYearFromOctober(d) == IF d.month >= 10 THEN d.year + 1 ELSE d.year

\* step 3: the hydrological year of the month a date was assigned to
HydroYear(d) == IF d.month >= 9 THEN d.year + 1 ELSE d.year

\* the function is called, once or again, with a date
get_hydro_year_and_month(file_date) ==
    /\ pc \in {"ready", "done"}
    /\ pc' = "done"
    /\ args' = [op |-> "get_hydro_year_and_month", file_date |-> file_date]
    /\ LET assigned == IF file_date.day < 15
                         THEN ReplaceDay1(MinusOneMonth(file_date))
                       ELSE ReplaceDay1(file_date)
       IN  ret' = [kind |-> "tuple",
                   closest_month |-> MonthAbbr[assigned.month],
                   hydro_year |-> HydroYear(assigned)]
    /\ UNCHANGED <<gdf, gdf_raster, ds_latlon, entry, data, ds_xy, fs>>

InitHydro ==
    /\ pc = "ready"
    /\ gdf = <<>>
    /\ gdf_raster = <<>>
    /\ ds_latlon = NoDataset
    /\ args = [op |-> "none"]
    /\ ret = NoRet
    /\ InitRest
    /\ entry = Entry

NextHydro == \E d \in Dates : get_hydro_year_and_month(d)

SpecHydro == InitHydro /\ [][NextHydro]_vars

\* the months from January of year 0 to the month a date is assigned to: the
\* month before its own when its day is below 15
AssignedMonths(d) == 12 * d.year + (d.month - 1) - (IF d.day < 15 THEN 1 ELSE 0)

\* date a is not after date b
NotAfter(a, b) ==
    \/ a.year < b.year
    \/ a.year = b.year /\ a.month < b.month
    \/ a.year = b.year /\ a.month = b.month /\ a.day <= b.day

\* C23: the date is assigned to the month before its own when its day is below
\* 15 and to its own month otherwise; the hydrological year returned is the
\* assigned month's year + 1 for September to December and that year for
\* January to August, so the months from September of Y to August of Y + 1 get
\* Y + 1 and a date before 15 January is assigned December and gets its own
\* calendar year; and a call with a later date never returns a lower
\* hydrological year than the call before it.
HydroYearSeptemberToAugust ==
    [][pc' = "done" =>
          LET d == args'.file_date
              am == (AssignedMonths(d) % 12) + 1
              ay == AssignedMonths(d) \div 12
          IN  /\ ret'.closest_month = MonthAbbr[am]
              /\ am \in 9..12 => ret'.hydro_year = ay + 1
              /\ am \in 1..8 => ret'.hydro_year = ay
              /\ \E Y \in {ret'.hydro_year - 1} :
                    /\ 12 * Y + 8 <= AssignedMonths(d)
                    /\ AssignedMonths(d) <= 12 * (Y + 1) + 7
              /\ (d.month = 1 /\ d.day < 15) =>
                    ret'.closest_month = "dec" /\ ret'.hydro_year = d.year
              /\ (pc = "done" /\ NotAfter(args.file_date, d)) =>
                    ret.hydro_year <= ret'.hydro_year]_vars

\* 10 January 2021 was assigned to December and the hydrological year 2021
HydroWitness ==
    /\ pc = "done"
    /\ args.file_date = [year |-> 2021, month |-> 1, day |-> 10]
    /\ ret.closest_month = "dec"
    /\ ret.hydro_year = 2021

\* 15 September 2020 was assigned to September and the hydrological year 2021
HydroSeptemberWitness ==
    /\ pc = "done"
    /\ args.file_date = [year |-> 2020, month |-> 9, day |-> 15]
    /\ ret.closest_month = "sep"
    /\ ret.hydro_year = 2021

====
